---- MODULE Spec2Model ----
(***************************************************************************)
(* CMDRun: the command registry (flat ordered store of actions tagged with *)
(* slash-delimited group paths, the tree view derived from it, the         *)
(* drag-and-drop reorder engine, import/export) and the run dispatcher.    *)
(*                                                                         *)
(* Conventions.                                                            *)
(*  - A JavaScript string is a tuple of one-character strings, so that     *)
(*    split, startsWith, includes, toLowerCase and trim are computed.      *)
(*  - An optional value is a tuple of length 0 (undefined / absent) or 1.  *)
(*  - Array indices are the 0-based indices of the source.                 *)
(***************************************************************************)
EXTENDS Integers, Sequences, FiniteSets, TLC

VARIABLES
    commands,       \* ListProvider.commands: the ordered store
    disk,           \* the content of .vscode/cmdrun.json: None (no file) or Some(text)
    hasWorkspace,   \* whether a workspace folder is open (getConfigPath() is defined)
    diskOk,         \* whether writing the file succeeds at present
    unsaved,        \* whether the last saveCommands() failed to write the store
    searchFilter,   \* ListProvider.searchFilter
    expandedGroups, \* ListProvider.expandedGroups
    shown,          \* the latest getChildren call the tree view made, and what it returned
    fsEvent,        \* the latest file watcher event not yet delivered ("none" when there is none)
    last,           \* the handler that ran last, with its inputs
    before,         \* the store as it was when that handler started
    calls,          \* the calls that handler made: saveCommands, refresh, notifications
    platform,       \* process.platform
    installed,      \* the optional terminals getTerminalProfiles finds on the file system
    runs,           \* the invocations of the cmdrun.run handler, each with its position
    effects,        \* what the run handlers have issued so far, in order
    form,           \* CommandFormPanel.currentPanel and what that panel holds
    prompt,         \* the modal delete confirmation that is open, if any
    dialog,         \* the export or import dialog that is open, if any
    exported        \* the file exportConfig wrote, if any

runVars == <<platform, installed, runs, effects>>
uiVars == <<form, prompt, dialog, exported>>

vars == <<commands, disk, unsaved, hasWorkspace, diskOk, searchFilter, expandedGroups, shown,
          fsEvent, last, before, calls, runVars, uiVars>>

----------------------------------------------------------------------------
(* Optional values *)

None == <<>>
Some(x) == <<x>>
Has(o) == o # <<>>
Val(o) == o[1]

----------------------------------------------------------------------------
(* Strings *)

Str1(a) == <<a>>

Min(a, b) == IF a < b THEN a ELSE b
Max(a, b) == IF a > b THEN a ELSE b

\* String.prototype.startsWith
StartsWith(s, p) == Len(p) <= Len(s) /\ SubSeq(s, 1, Len(p)) = p

\* String.prototype.includes
Includes(s, f) == \E i \in 0..(Len(s) - Len(f)) : SubSeq(s, i + 1, i + Len(f)) = f

\* String.prototype.slice(n)
Slice(s, n) == SubSeq(s, n + 1, Len(s))

\* the first element of s.split('/')
RECURSIVE FirstSegment(_)
FirstSegment(s) ==
    IF s = <<>> \/ Head(s) = "/" THEN <<>>
    ELSE <<Head(s)>> \o FirstSegment(Tail(s))

\* s.split('/')
RECURSIVE Split(_)
Split(s) ==
    LET first == FirstSegment(s)
    IN  IF Len(first) = Len(s) THEN <<first>>
        ELSE <<first>> \o Split(Slice(s, Len(first) + 1))

\* Array.prototype.join(sep) on an array of strings
RECURSIVE Join(_, _)
Join(arr, sep) ==
    IF arr = <<>> THEN <<>>
    ELSE IF Len(arr) = 1 THEN arr[1]
    ELSE arr[1] \o sep \o Join(Tail(arr), sep)

LowerChar(ch) ==
    CASE ch = "A" -> "a" [] ch = "B" -> "b" [] ch = "C" -> "c" [] ch = "D" -> "d"
      [] ch = "G" -> "g" [] ch = "H" -> "h" [] ch = "N" -> "n" [] ch = "S" -> "s"
      [] ch = "U" -> "u" [] ch = "X" -> "x" [] ch = "Y" -> "y"
      [] OTHER -> ch

\* String.prototype.toLowerCase
ToLowerCase(s) == [i \in 1..Len(s) |-> LowerChar(s[i])]

\* String.prototype.trim (the only white space of the model is " ")
RECURSIVE TrimStart(_)
TrimStart(s) == IF s # <<>> /\ Head(s) = " " THEN TrimStart(Tail(s)) ELSE s
RECURSIVE TrimEnd(_)
TrimEnd(s) == IF s # <<>> /\ s[Len(s)] = " " THEN TrimEnd(SubSeq(s, 1, Len(s) - 1)) ELSE s
Trim(s) == TrimEnd(TrimStart(s))

----------------------------------------------------------------------------
(* Arrays *)

\* arr[i] with the 0-based index of the source; InRange is "arr[i] is not undefined"
InRange(arr, i) == i >= 0 /\ i < Len(arr)
At(arr, i) == arr[i + 1]

\* Array.prototype.splice(start, deleteCount, ...items): the array afterwards
SpliceStart(arr, start) ==
    IF start < 0 THEN Max(Len(arr) + start, 0) ELSE Min(start, Len(arr))
Splice(arr, start, deleteCount, items) ==
    LET s == SpliceStart(arr, start)
        d == Min(Max(deleteCount, 0), Len(arr) - s)
    IN  SubSeq(arr, 1, s) \o items \o SubSeq(arr, s + d + 1, Len(arr))

\* The callbacks of findIndex, filter and forEach are given by their values on the
\* elements: test[i] is the callback's result on the i-th element.

\* Array.prototype.findIndex
FindIndex(test) ==
    IF \E i \in 1..Len(test) : test[i]
    THEN (CHOOSE i \in 1..Len(test) : test[i] /\ \A j \in 1..(i - 1) : ~test[j]) - 1
    ELSE -1

\* Array.prototype.filter
RECURSIVE Filter(_, _)
Filter(arr, test) ==
    IF arr = <<>> THEN <<>>
    ELSE (IF Head(test) THEN <<Head(arr)>> ELSE <<>>) \o Filter(Tail(arr), Tail(test))

----------------------------------------------------------------------------
(* CommandData (interface CommandData) *)

\* a command with only the required name and the group
Cmd(name, group) ==
    [ name |-> name, group |-> group, commands |-> None, autoClose |-> None,
      externalTerminal |-> None, terminalProfile |-> None, runAsAdmin |-> None,
      env |-> None, urls |-> None, url |-> None, programs |-> None,
      program |-> None, args |-> None, slot |-> "object" ]

\* what an element of the store is when it is no command: an empty slot of the
\* array (array[i] is undefined, and forEach, filter and map pass over it), or null
EmptySlot == [Cmd(<<>>, None) EXCEPT !.slot = "empty"]
NullSlot == [Cmd(<<>>, None) EXCEPT !.slot = "null"]

\* this.commands[index] is a command: neither undefined nor null
IsCommand(cmds, index) == InRange(cmds, index) /\ At(cmds, index).slot = "object"

\* whether a pass over the store throws a TypeError: every callback and loop body
\* reads a property of the element it is given.  for...of gives every element;
\* filter, map and forEach pass over the empty slots; findIndex gives every element
\* up to the first one its callback accepts
ForOfThrows(cmds) == \E i \in 1..Len(cmds) : cmds[i].slot # "object"
FilterThrows(cmds) == \E i \in 1..Len(cmds) : cmds[i].slot = "null"
FindIndexThrows(cmds, test) ==
    \E i \in 1..Len(cmds) :
        /\ cmds[i].slot # "object"
        /\ \A j \in 1..(i - 1) : cmds[j].slot = "object" /\ ~test[j]

\* JavaScript truthiness of an optional string: defined and not ''
Truthy(o) == Has(o) /\ Val(o) # <<>>

\* c.group === groupPath || (c.group && c.group.startsWith(groupPath + '/'))
InGroup(c, groupPath) ==
    \/ c.group = Some(groupPath)
    \/ (Truthy(c.group) /\ StartsWith(Val(c.group), groupPath \o <<"/">>))
InGroupTest(cmds, groupPath) == [i \in 1..Len(cmds) |-> InGroup(cmds[i], groupPath)]

\* !c.group
Ungrouped(c) == ~Truthy(c.group)
UngroupedTest(cmds) == [i \in 1..Len(cmds) |-> Ungrouped(cmds[i])]

----------------------------------------------------------------------------
(* Tree items: GroupItem and CommandItem; NoItem is undefined (a drop on   *)
(* empty space).  A CommandItem holds a reference to the command object.   *)

NoItem ==
    [kind |-> "none", groupPath |-> <<>>, isExpanded |-> FALSE, commandCount |-> 0,
     data |-> None, index |-> -1]
GroupItem(groupPath, isExpanded, commandCount) ==
    [kind |-> "group", groupPath |-> groupPath, isExpanded |-> isExpanded,
     commandCount |-> commandCount, data |-> None, index |-> -1]
CommandItem(data, index) ==
    [kind |-> "command", groupPath |-> <<>>, isExpanded |-> FALSE, commandCount |-> 0,
     data |-> Some(data), index |-> index]

----------------------------------------------------------------------------
(* The tree view: matchesSearch, getGroupCommandCount, getRootItems,       *)
(* getGroupChildren, getChildren                                           *)

\* data.urls || (data.url ? [{ url: data.url }] : [])
SearchUrls(cmd) ==
    IF Has(cmd.urls) THEN Val(cmd.urls)
    ELSE IF Truthy(cmd.url) THEN <<[url |-> Val(cmd.url), external |-> None]>>
    ELSE <<>>

\* cmd.programs || (cmd.program ? [{ path: cmd.program }] : [])
SearchPrograms(cmd) ==
    IF Has(cmd.programs) THEN Val(cmd.programs)
    ELSE IF Truthy(cmd.program) THEN <<[path |-> Val(cmd.program), args |-> None]>>
    ELSE <<>>

\* matchesSearch(cmd) under this.searchFilter = filter
MatchesSearch(cmd, filter) ==
    \/ filter = <<>>
    \/ Includes(ToLowerCase(cmd.name), filter)
    \/ (Truthy(cmd.group) /\ Includes(ToLowerCase(Val(cmd.group)), filter))
    \/ (Has(cmd.commands) /\
            \E i \in 1..Len(Val(cmd.commands)) :
                Includes(ToLowerCase(Val(cmd.commands)[i]), filter))
    \/ (\E i \in 1..Len(SearchUrls(cmd)) :
            Includes(ToLowerCase(SearchUrls(cmd)[i].url), filter))
    \/ (\E i \in 1..Len(SearchPrograms(cmd)) :
            Includes(ToLowerCase(SearchPrograms(cmd)[i].path), filter))

\* this.searchFilter ? this.commands.filter(cmd => this.matchesSearch(cmd)) : this.commands
MatchesTest(cmds, filter) == [i \in 1..Len(cmds) |-> MatchesSearch(cmds[i], filter)]
FilteredCommands(cmds, filter) ==
    IF filter # <<>> THEN Filter(cmds, MatchesTest(cmds, filter)) ELSE cmds

\* GetGroupCommandCount leaving out the commands of the subgroups
GetGroupCommandCountDirect(groupPath, commandsList) ==
    Len(Filter(commandsList,
               [i \in 1..Len(commandsList) |-> commandsList[i].group = Some(groupPath)]))

\* getGroupCommandCount(groupPath, commandsList)
GetGroupCommandCount(groupPath, commandsList) ==
    Len(Filter(commandsList, InGroupTest(commandsList, groupPath)))

\* the elements of s, each once, in order of last appearance
RECURSIVE LastAppearance(_)
LastAppearance(s) ==
    IF s = <<>> THEN <<>>
    ELSE LET back == LastAppearance(Tail(s))
         IN  IF \E i \in 1..Len(back) : back[i] = Head(s) THEN back ELSE <<Head(s)>> \o back

\* the seenGroups / topLevelGroups idiom: the elements of s in order of first appearance
RECURSIVE FirstAppearance(_)
FirstAppearance(s) ==
    IF s = <<>> THEN <<>>
    ELSE LET front == FirstAppearance(SubSeq(s, 1, Len(s) - 1))
             x == s[Len(s)]
         IN  IF \E i \in 1..Len(front) : front[i] = x THEN front ELSE Append(front, x)

\* IsExpandedInView reading the stored state also while a filter is active
IsExpandedStored(group, filter, expanded) == group \in expanded

\* this.searchFilter ? true : this.isGroupExpanded(group)
IsExpandedInView(group, filter, expanded) ==
    IF filter # <<>> THEN TRUE ELSE group \in expanded

\* a set of indices as the ascending sequence forEach visits them in
RECURSIVE Ascending(_)
Ascending(indices) ==
    IF indices = {} THEN <<>>
    ELSE LET least == CHOOSE i \in indices : \A j \in indices : i <= j
         IN  <<least>> \o Ascending(indices \ {least})

\* CommandItemsFrom numbering the items by their place among those kept
CommandItemsFromRenumbered(cmds, test) ==
    LET kept == Ascending({i \in 0..(Len(cmds) - 1) : test[i + 1]})
    IN  [k \in 1..Len(kept) |-> CommandItem(At(cmds, kept[k]), k - 1)]

\* this.commands.forEach((cmd, index) => { if (test) items.push(new CommandItem(cmd, index)) })
CommandItemsFrom(cmds, test) ==
    LET kept == Ascending({i \in 0..(Len(cmds) - 1) : test[i + 1]})
    IN  [k \in 1..Len(kept) |-> CommandItem(At(cmds, kept[k]), kept[k])]

\* getRootItems
GetRootItems(cmds, filter, expanded) ==
    LET filteredCommands == FilteredCommands(cmds, filter)
        grouped == Filter(filteredCommands,
                          [i \in 1..Len(filteredCommands) |-> Truthy(filteredCommands[i].group)])
        topLevelGroups ==
            FirstAppearance([i \in 1..Len(grouped) |-> FirstSegment(Val(grouped[i].group))])
        groupItems ==
            [i \in 1..Len(topLevelGroups) |->
                GroupItem(topLevelGroups[i],
                          IsExpandedInView(topLevelGroups[i], filter, expanded),
                          GetGroupCommandCount(topLevelGroups[i], filteredCommands))]
    IN  groupItems \o
        CommandItemsFrom(cmds,
            [i \in 1..Len(cmds) |-> ~Truthy(cmds[i].group) /\ MatchesSearch(cmds[i], filter)])

\* getGroupChildren returning [...items, ...subGroupItems]
GetGroupChildrenCommandsFirst(cmds, filter, expanded, groupPath) ==
    LET prefix == groupPath \o <<"/">>
        filteredCommands == FilteredCommands(cmds, filter)
        visits ==
            [i \in 1..Len(cmds) |->
                Truthy(cmds[i].group) /\ ~(filter # <<>> /\ ~MatchesSearch(cmds[i], filter))]
        nested ==
            Filter(cmds,
                [i \in 1..Len(cmds) |->
                    visits[i] /\ Val(cmds[i].group) # groupPath
                              /\ StartsWith(Val(cmds[i].group), prefix)])
        subGroups ==
            FirstAppearance([i \in 1..Len(nested) |->
                prefix \o FirstSegment(Slice(Val(nested[i].group), Len(prefix)))])
        subGroupItems ==
            [i \in 1..Len(subGroups) |->
                GroupItem(subGroups[i],
                          IsExpandedInView(subGroups[i], filter, expanded),
                          GetGroupCommandCount(subGroups[i], filteredCommands))]
    IN  CommandItemsFrom(cmds,
            [i \in 1..Len(cmds) |-> visits[i] /\ Val(cmds[i].group) = groupPath])
        \o subGroupItems

\* getGroupChildren(groupPath)
GetGroupChildren(cmds, filter, expanded, groupPath) ==
    LET prefix == groupPath \o <<"/">>
        filteredCommands == FilteredCommands(cmds, filter)
        \* the commands the forEach does not return early on
        visits ==
            [i \in 1..Len(cmds) |->
                Truthy(cmds[i].group) /\ ~(filter # <<>> /\ ~MatchesSearch(cmds[i], filter))]
        nested ==
            Filter(cmds,
                [i \in 1..Len(cmds) |->
                    visits[i] /\ Val(cmds[i].group) # groupPath
                              /\ StartsWith(Val(cmds[i].group), prefix)])
        subGroups ==
            FirstAppearance([i \in 1..Len(nested) |->
                prefix \o FirstSegment(Slice(Val(nested[i].group), Len(prefix)))])
        subGroupItems ==
            [i \in 1..Len(subGroups) |->
                GroupItem(subGroups[i],
                          IsExpandedInView(subGroups[i], filter, expanded),
                          GetGroupCommandCount(subGroups[i], filteredCommands))]
    IN  subGroupItems \o
        CommandItemsFrom(cmds,
            [i \in 1..Len(cmds) |-> visits[i] /\ Val(cmds[i].group) = groupPath])

\* getChildren(element)
GetChildren(cmds, filter, expanded, element) ==
    IF element.kind = "none" THEN GetRootItems(cmds, filter, expanded)
    ELSE IF element.kind = "group"
         THEN GetGroupChildren(cmds, filter, expanded, element.groupPath)
    ELSE <<>>

\* every item of the tree: the root items and, level by level, the children of
\* the group items (depth levels below the given items)
RECURSIVE ItemsBelow(_, _, _, _, _)
ItemsBelow(cmds, filter, expanded, items, depth) ==
    LET here == {items[i] : i \in 1..Len(items)}
    IN  IF depth = 0 THEN here
        ELSE here \cup UNION { ItemsBelow(cmds, filter, expanded,
                                          GetChildren(cmds, filter, expanded, it), depth - 1)
                               : it \in {x \in here : x.kind = "group"} }

----------------------------------------------------------------------------
(* The configuration file: JSON.stringify / JSON.parse of { commands }     *)

\* the JSON value null
JsonNull ==
    [ json |-> "null", name |-> None, group |-> None, commands |-> None,
      autoClose |-> None, externalTerminal |-> None, terminalProfile |-> None,
      runAsAdmin |-> None, env |-> None, urls |-> None, url |-> None,
      programs |-> None, program |-> None, args |-> None ]

\* one element of the array as JSON: a command as an object, in which a property
\* is written when it is defined; an empty slot of the array, and null, as null
StringifyCommand(c) ==
    IF c.slot # "object" THEN JsonNull
    ELSE
    [ json |-> "object",
      name |-> Some(c.name), group |-> c.group, commands |-> c.commands,
      autoClose |-> c.autoClose, externalTerminal |-> c.externalTerminal,
      terminalProfile |-> c.terminalProfile, runAsAdmin |-> c.runAsAdmin,
      env |-> c.env, urls |-> c.urls, url |-> c.url, programs |-> c.programs,
      program |-> c.program, args |-> c.args ]

\* JSON.stringify({ commands: cmds }, null, 2)
Stringify(cmds) ==
    [ json |-> "object",
      commands |-> Some([i \in 1..Len(cmds) |-> StringifyCommand(cmds[i])]) ]

\* a file that JSON.parse rejects, a file that readFileSync cannot read, and an
\* object with no commands property
MalformedText == [json |-> "malformed", commands |-> None]
UnreadableText == [json |-> "unreadable", commands |-> None]
NoCommandsText == [json |-> "object", commands |-> None]

\* one parsed JSON object read as CommandData (the documents of the model name
\* every command)
ParseCommand(o) ==
    IF o.json = "null" THEN NullSlot
    ELSE
    [ name |-> Val(o.name), group |-> o.group, commands |-> o.commands,
      autoClose |-> o.autoClose, externalTerminal |-> o.externalTerminal,
      terminalProfile |-> o.terminalProfile, runAsAdmin |-> o.runAsAdmin,
      env |-> o.env, urls |-> o.urls, url |-> o.url, programs |-> o.programs,
      program |-> o.program, args |-> o.args, slot |-> "object" ]

\* JSON.parse(content).commands: None when the property is missing
ParseCommands(text) ==
    IF Has(text.commands)
    THEN Some([i \in 1..Len(Val(text.commands)) |-> ParseCommand(Val(text.commands)[i])])
    ELSE None

\* loadCommands: the store it leaves and the notifications it shows
LoadCommands(ws, file) ==
    IF ~ws THEN [commands |-> <<>>, calls |-> <<>>]
    ELSE IF ~Has(file) THEN [commands |-> <<>>, calls |-> <<>>]
    ELSE IF Val(file).json \in {"malformed", "unreadable"}
         THEN [commands |-> <<>>, calls |-> <<"showErrorMessage">>]
    ELSE LET parsed == ParseCommands(Val(file))
         IN  [commands |-> IF Has(parsed) THEN Val(parsed) ELSE <<>>, calls |-> <<>>]

\* saveCommands: the file, the watcher event and the notifications it leaves
SaveCommands(cmds) ==
    IF ~hasWorkspace
    THEN [disk |-> disk, fsEvent |-> fsEvent, ok |-> FALSE,
          calls |-> <<"saveCommands", "showErrorMessage">>]
    ELSE IF ~diskOk
    THEN [disk |-> disk, fsEvent |-> fsEvent, ok |-> FALSE,
          calls |-> <<"saveCommands", "showErrorMessage">>]
    ELSE [disk |-> Some(Stringify(cmds)), ok |-> TRUE,
          fsEvent |-> IF Has(disk) THEN "change" ELSE "create",
          calls |-> <<"saveCommands">>]

----------------------------------------------------------------------------
(* Drag and drop: handleDrag, handleDrop, handleGroupDrop *)

\* the payload handleDrag stores for the dragged items
CommandsPayload(indices) == [type |-> "commands", indices |-> indices, groupPath |-> <<>>]
GroupPayload(groupPath) == [type |-> "group", indices |-> <<>>, groupPath |-> groupPath]

\* handleDrop: "Determine target group and position"
DropTargetGroup(target) ==
    CASE target.kind = "group" -> Some(target.groupPath)
      [] target.kind = "command" -> Val(target.data).group
      [] OTHER -> None

\* DropTargetIndex taking the end of the store for every group, without findIndex
DropTargetIndexAtEnd(cmds, target) ==
    CASE target.kind = "group" -> Len(cmds)
      [] target.kind = "command" -> target.index
      [] OTHER ->
            LET i == FindIndex(UngroupedTest(cmds))
            IN  IF i = -1 THEN Len(cmds) ELSE i

DropTargetIndex(cmds, target) ==
    CASE target.kind = "group" ->
            LET i == FindIndex(InGroupTest(cmds, target.groupPath))
            IN  IF i = -1 THEN Len(cmds) ELSE i
      [] target.kind = "command" -> target.index
      [] OTHER ->
            LET i == FindIndex(UngroupedTest(cmds))
            IN  IF i = -1 THEN Len(cmds) ELSE i

\* whether the findIndex that looks for the target position throws
DropThrows(cmds, target) ==
    CASE target.kind = "group" -> FindIndexThrows(cmds, InGroupTest(cmds, target.groupPath))
      [] target.kind = "command" -> FALSE
      [] OTHER -> FindIndexThrows(cmds, UngroupedTest(cmds))

\* AdjustedTarget without the shift that removing the source causes
AdjustedTargetUnshifted(sourceIndex, targetIndex) == targetIndex
\* AdjustedTarget shifting also when the source is the target
AdjustedTargetInclusive(sourceIndex, targetIndex) ==
    IF sourceIndex <= targetIndex THEN targetIndex - 1 ELSE targetIndex

\* const [removed] = splice(sourceIndex, 1); splice(adjustedTarget, 0, removed)
AdjustedTarget(sourceIndex, targetIndex) ==
    IF sourceIndex < targetIndex THEN targetIndex - 1 ELSE targetIndex

\* MoveCommand leaving the command where it was as well: splice(sourceIndex, 0)
MoveCommandCopying(cmds, sourceIndex, targetIndex) ==
    Splice(cmds, AdjustedTarget(sourceIndex, targetIndex), 0, <<At(cmds, sourceIndex)>>)

MoveCommand(cmds, sourceIndex, targetIndex) ==
    LET removed == At(cmds, sourceIndex)
        rest == Splice(cmds, sourceIndex, 1, <<>>)
    IN  Splice(rest, AdjustedTarget(sourceIndex, targetIndex), 0, <<removed>>)

\* DropCommand giving the command the target's group where it stands
DropCommandInPlace(cmds, sourceIndex, target) ==
    IF At(cmds, sourceIndex).group = DropTargetGroup(target)
       /\ DropTargetIndex(cmds, target) # -1
    THEN MoveCommand(cmds, sourceIndex, DropTargetIndex(cmds, target))
    ELSE [cmds EXCEPT ![sourceIndex + 1].group = DropTargetGroup(target)]

\* handleDrop for a payload of commands whose first index is in the store
DropCommand(cmds, sourceIndex, target) ==
    LET sourceCmd == At(cmds, sourceIndex)
        targetGroup == DropTargetGroup(target)
        targetIndex == DropTargetIndex(cmds, target)
    IN  IF sourceCmd.group = targetGroup /\ targetIndex # -1
        THEN MoveCommand(cmds, sourceIndex, targetIndex)
        ELSE LET regrouped == [cmds EXCEPT ![sourceIndex + 1].group = targetGroup]
             IN  IF targetIndex # -1 /\ targetIndex # sourceIndex
                 THEN MoveCommand(regrouped, sourceIndex, targetIndex)
                 ELSE regrouped

\* handleGroupDrop: "Determine target position"
GroupDropTargetIndex(cmds, target) ==
    LET found ==
            CASE target.kind = "group" ->
                    FindIndex(InGroupTest(cmds, target.groupPath))
              [] target.kind = "command" -> target.index
              [] OTHER ->
                    LET i == FindIndex(UngroupedTest(cmds))
                    IN  IF i = -1 THEN Len(cmds) ELSE i
    IN  IF found = -1 THEN Len(cmds) ELSE found

\* the indices of the commands of the source group, ascending
SourceIndices(cmds, sourceGroupPath) ==
    {i \in 0..(Len(cmds) - 1) : InGroup(At(cmds, i), sourceGroupPath)}

\* RemoveDescending with removed.push in the place of removed.unshift
RECURSIVE RemoveDescendingPushing(_, _, _)
RemoveDescendingPushing(cmds, indices, removed) ==
    IF indices = {} THEN [commands |-> cmds, removed |-> removed]
    ELSE LET idx == CHOOSE i \in indices : \A j \in indices : j <= i
         IN  RemoveDescendingPushing(Splice(cmds, idx, 1, <<>>), indices \ {idx},
                                     removed \o <<At(cmds, idx)>>)

\* the loop "for (const idx of sourceIndices) removed.unshift(splice(idx, 1)[0])",
\* the indices taken in descending order: what is left of the store, and removed
RECURSIVE RemoveDescending(_, _, _)
RemoveDescending(cmds, indices, removed) ==
    IF indices = {} THEN [commands |-> cmds, removed |-> removed]
    ELSE LET idx == CHOOSE i \in indices : \A j \in indices : j <= i
         IN  RemoveDescending(Splice(cmds, idx, 1, <<>>), indices \ {idx},
                              <<At(cmds, idx)>> \o removed)

\* a group drop that gave the moved commands the group of the target
GroupDropRegrouping(cmds, sourceGroupPath, target) ==
    LET moved == [i \in 1..Len(cmds) |->
                    IF InGroup(cmds[i], sourceGroupPath)
                    THEN [cmds[i] EXCEPT !.group = DropTargetGroup(target)] ELSE cmds[i]]
        targetIndex == GroupDropTargetIndex(cmds, target)
        sourceIndices == SourceIndices(cmds, sourceGroupPath)
        taken == RemoveDescending(moved, sourceIndices, <<>>)
        sourcesBeforeTarget == Cardinality({idx \in sourceIndices : idx < targetIndex})
    IN  Splice(taken.commands, targetIndex - sourcesBeforeTarget, 0, taken.removed)

\* GroupDrop inserting at the target index as it was before the removals
GroupDropUnadjusted(cmds, sourceGroupPath, target) ==
    LET targetIndex == GroupDropTargetIndex(cmds, target)
        taken == RemoveDescending(cmds, SourceIndices(cmds, sourceGroupPath), <<>>)
    IN  Splice(taken.commands, targetIndex, 0, taken.removed)

\* handleGroupDrop for a source group that has commands
GroupDrop(cmds, sourceGroupPath, target) ==
    LET targetIndex == GroupDropTargetIndex(cmds, target)
        sourceIndices == SourceIndices(cmds, sourceGroupPath)
        taken == RemoveDescending(cmds, sourceIndices, <<>>)
        sourcesBeforeTarget == Cardinality({idx \in sourceIndices : idx < targetIndex})
        adjustedTarget == targetIndex - sourcesBeforeTarget
    IN  Splice(taken.commands, adjustedTarget, 0, taken.removed)

----------------------------------------------------------------------------
(* Bounds and the data of the model *)

\* the deepest nesting of groups the tree walk follows
MaxDepth == 3
\* the most items dragged together
MaxDrag == 2

A == Str1("A")
B == Str1("B")
C == Str1("C")
G == Str1("G")
X == Str1("X")
GSub == <<"G", "/", "S", "u", "b">>

\* [A, B(group X), C(group X)]
StoreAXX == <<Cmd(A, None), Cmd(B, Some(X)), Cmd(C, Some(X))>>
\* [A(group G), B(group G/Sub), C]
StoreGSub == <<Cmd(A, Some(G)), Cmd(B, Some(GSub)), Cmd(C, None)>>
\* [A(group G), B, C(group G/Sub)]: a group whose members are apart
StoreApart == <<Cmd(A, Some(G)), Cmd(B, None), Cmd(C, Some(GSub))>>

InitialStores == {StoreAXX, StoreGSub, StoreApart}

----------------------------------------------------------------------------
(* The handlers as actions *)

Handled(op, payload, target) == [op |-> op, payload |-> payload, target |-> target]
NoPayload == CommandsPayload(<<>>)

\* every item the tree shows, level by level, for the store as it is
TreeItems ==
    ItemsBelow(commands, searchFilter, expandedGroups,
               GetRootItems(commands, searchFilter, expandedGroups), MaxDepth)

\* what a drop can land on: an item of the tree, or empty space
DropTargets == {NoItem} \cup TreeItems

\* the index lists handleDrag can have stored: the indices of dragged CommandItems;
\* the index Len(commands) is that of an item of a store since shortened
DraggedIndices ==
    {<<>>} \cup {<<i>> : i \in 0..Len(commands)}
           \cup (IF MaxDrag >= 2 /\ Len(commands) >= 2
                 THEN {<<i, (i + 1) % Len(commands)>> : i \in 0..(Len(commands) - 1)}
                 ELSE {})

\* the path of a group the store has no command of any more
StaleGroup == Str1("Z")

\* the group paths handleDrag can have stored: those of the GroupItems of the tree,
\* and that of a GroupItem of a store since changed
DraggedGroups == {it.groupPath : it \in {x \in TreeItems : x.kind = "group"}} \cup {StaleGroup}

\* the tree view before its first getChildren call, and after refresh() made it
\* drop the items it held
NoView == [read |-> FALSE, element |-> NoItem, filter |-> <<>>, expanded |-> {}, items |-> <<>>]

\* saveCommands() then refresh() on the store cmds
SaveAndRefresh(cmds) ==
    LET saved == SaveCommands(cmds)
    IN  /\ disk' = saved.disk
        /\ unsaved' = ~saved.ok
        /\ fsEvent' = saved.fsEvent
        /\ calls' = saved.calls \o <<"refresh">>
        /\ shown' = NoView

\* sourceCmd.group = targetGroup assigns to the object of the store, and a run
\* suspended in its URL loop that read this object sees the new group through its
\* cmdData. Objects are known here by what they hold: every run whose object
\* holds what the dragged one holds is taken to have read that one
HeldRegrouped(rs, sourceCmd, targetGroup) ==
    [r \in 1..Len(rs) |->
        IF rs[r].cmdData = sourceCmd
        THEN [rs[r] EXCEPT !.cmdData = [sourceCmd EXCEPT !.group = targetGroup]]
        ELSE rs[r]]

\* handleDrop taking the last of the dragged indices as the source
HandleDropCommandsLast(indices, target) ==
    LET sourceIndex == IF indices = <<>> THEN -1 ELSE indices[Len(indices)]
    IN  /\ before' = commands
        /\ last' = Handled("handleDrop", CommandsPayload(indices), target)
        /\ IF ~IsCommand(commands, sourceIndex)
           THEN /\ calls' = <<>>
                /\ UNCHANGED <<commands, disk, unsaved, fsEvent, shown>>
           ELSE IF DropThrows(commands, target)
           THEN /\ calls' = <<"TypeError">>
                /\ UNCHANGED <<commands, disk, unsaved, fsEvent, shown>>
           ELSE /\ commands' = DropCommand(commands, sourceIndex, target)
                /\ SaveAndRefresh(commands')
        /\ UNCHANGED <<hasWorkspace, diskOk, searchFilter, expandedGroups>>
        /\ UNCHANGED runVars
        /\ UNCHANGED uiVars

\* handleDrop with a payload of commands
HandleDropCommands(indices, target) ==
    /\ before' = commands
    /\ last' = Handled("handleDrop", CommandsPayload(indices), target)
    /\ IF indices = <<>> \/ ~IsCommand(commands, indices[1])
       THEN /\ calls' = <<>>
            /\ UNCHANGED <<commands, disk, unsaved, fsEvent, shown>>
       ELSE IF DropThrows(commands, target)
       THEN /\ calls' = <<"TypeError">>
            /\ UNCHANGED <<commands, disk, unsaved, fsEvent, shown>>
       ELSE /\ commands' = DropCommand(commands, indices[1], target)
            /\ SaveAndRefresh(commands')
    /\ UNCHANGED <<hasWorkspace, diskOk, searchFilter, expandedGroups>>
    /\ runs' = IF indices = <<>> \/ ~IsCommand(commands, indices[1])
                  \/ DropThrows(commands, target)
               THEN runs
               ELSE HeldRegrouped(runs, At(commands, indices[1]), DropTargetGroup(target))
    /\ UNCHANGED <<platform, installed, effects>>
    /\ UNCHANGED uiVars

\* handleGroupDrop without the return for a source group that has no commands
HandleDropGroupUnchecked(sourceGroupPath, target) ==
    /\ before' = commands
    /\ last' = Handled("handleGroupDrop", GroupPayload(sourceGroupPath), target)
    /\ IF FilterThrows(commands) \/ DropThrows(commands, target)
       THEN /\ calls' = <<"TypeError">>
            /\ UNCHANGED <<commands, disk, unsaved, fsEvent, shown>>
       ELSE /\ commands' = GroupDrop(commands, sourceGroupPath, target)
            /\ SaveAndRefresh(commands')
    /\ UNCHANGED <<hasWorkspace, diskOk, searchFilter, expandedGroups>>
    /\ UNCHANGED runVars
    /\ UNCHANGED uiVars

\* handleDrop with a payload of one group: handleGroupDrop
HandleDropGroup(sourceGroupPath, target) ==
    /\ before' = commands
    /\ last' = Handled("handleGroupDrop", GroupPayload(sourceGroupPath), target)
    /\ IF FilterThrows(commands)
       THEN /\ calls' = <<"TypeError">>
            /\ UNCHANGED <<commands, disk, unsaved, fsEvent, shown>>
       ELSE IF SourceIndices(commands, sourceGroupPath) = {}
       THEN /\ calls' = <<>>
            /\ UNCHANGED <<commands, disk, unsaved, fsEvent, shown>>
       ELSE IF DropThrows(commands, target)
       THEN /\ calls' = <<"TypeError">>
            /\ UNCHANGED <<commands, disk, unsaved, fsEvent, shown>>
       ELSE /\ commands' = GroupDrop(commands, sourceGroupPath, target)
            /\ SaveAndRefresh(commands')
    /\ UNCHANGED <<hasWorkspace, diskOk, searchFilter, expandedGroups>>
    /\ UNCHANGED runVars
    /\ UNCHANGED uiVars

\* fileWatcher.onDidDelete: this.commands = []; refresh()
FileDeleted ==
    /\ fsEvent = "delete"
    /\ commands' = <<>>
    /\ calls' = <<"refresh">>
    /\ shown' = NoView
    /\ fsEvent' = "none"
    /\ before' = commands
    /\ last' = Handled("onDidDelete", NoPayload, NoItem)
    /\ UNCHANGED <<disk, unsaved, hasWorkspace, diskOk, searchFilter, expandedGroups>>
    /\ UNCHANGED runVars
    /\ UNCHANGED uiVars

\* fileWatcher.onDidChange / onDidCreate: loadCommands(); refresh()
FileChanged ==
    /\ fsEvent \in {"change", "create"}
    /\ LET loaded == LoadCommands(hasWorkspace, disk)
       IN  /\ commands' = loaded.commands
           /\ calls' = loaded.calls \o <<"refresh">>
    /\ shown' = NoView
    /\ fsEvent' = "none"
    /\ before' = commands
    /\ last' = Handled("onDidChange", NoPayload, NoItem)
    /\ UNCHANGED <<disk, unsaved, hasWorkspace, diskOk, searchFilter, expandedGroups>>
    /\ UNCHANGED runVars
    /\ UNCHANGED uiVars

----------------------------------------------------------------------------
(* The run dispatcher: terminal profiles and the terminal invocation       *)
(* A string literal of the source is one piece of the tuple; the strings   *)
(* the user wrote stay tuples of characters.                               *)

Lit(s) == <<s>>

\* s.replace(/c/g, with) for a one-character pattern c
RECURSIVE ReplaceAll(_, _, _)
ReplaceAll(s, c, with) ==
    IF s = <<>> THEN <<>>
    ELSE (IF Head(s) = c THEN with ELSE <<Head(s)>>) \o ReplaceAll(Tail(s), c, with)

\* the grave accent character, PowerShell's escape
Backtick == "grave"

\* JavaScript truthiness of an optional boolean
IsTrue(o) == Has(o) /\ Val(o) = TRUE

\* the paths of the profiles, cut where the handler's includes() tests look
CmdPath == <<"cmd", ".exe">>
PowerShellPath == <<"powershell", ".exe">>
PwshPath == <<"C:\\Program Files\\PowerShell\\7\\", "pwsh", ".exe">>
GitBashPath == <<"C:\\Program Files\\Git\\bin\\", "bash", ".exe">>
WtPath == <<"wt">>

TerminalProfile(name, path) == [name |-> Lit(name), path |-> path]

\* getTerminalProfiles(): inst holds the terminals fs.existsSync finds
GetTerminalProfiles(plat, inst) ==
    CASE plat = "win32" ->
            <<TerminalProfile("Command Prompt", CmdPath),
              TerminalProfile("PowerShell", PowerShellPath)>>
            \o (IF "pwsh" \in inst THEN <<TerminalProfile("PowerShell 7", PwshPath)>> ELSE <<>>)
            \o (IF "gitbash" \in inst THEN <<TerminalProfile("Git Bash", GitBashPath)>> ELSE <<>>)
            \o (IF "wt" \in inst THEN <<TerminalProfile("Windows Terminal", WtPath)>> ELSE <<>>)
      [] plat = "darwin" ->
            <<TerminalProfile("Terminal", Lit("Terminal.app")),
              TerminalProfile("iTerm2", Lit("iTerm.app"))>>
      [] OTHER ->
            <<TerminalProfile("GNOME Terminal", Lit("gnome-terminal")),
              TerminalProfile("Konsole", Lit("konsole")),
              TerminalProfile("xterm", Lit("xterm")),
              TerminalProfile("xfce4-terminal", Lit("xfce4-terminal"))>>

\* SelectedProfile taking the last profile of the list when none has the name
SelectedProfileOrLast(cmdData, profiles) ==
    IF Truthy(cmdData.terminalProfile)
    THEN LET i == FindIndex([k \in 1..Len(profiles) |->
                                profiles[k].name = Val(cmdData.terminalProfile)])
         IN  IF i = -1 THEN Some(At(profiles, Len(profiles) - 1)) ELSE Some(At(profiles, i))
    ELSE Some(At(profiles, 0))

\* cmdData.terminalProfile ? profiles.find(p => p.name === ...) : profiles[0]
SelectedProfile(cmdData, profiles) ==
    IF Truthy(cmdData.terminalProfile)
    THEN LET i == FindIndex([k \in 1..Len(profiles) |->
                                profiles[k].name = Val(cmdData.terminalProfile)])
         IN  IF i = -1 THEN None ELSE Some(At(profiles, i))
    ELSE Some(At(profiles, 0))

\* the calls the handler issues
Exec(line) ==
    [api |-> "exec", file |-> <<>>, argv |-> <<>>, text |-> line, env |-> None]
Spawn(file, argv) ==
    [api |-> "spawn", file |-> Lit(file), argv |-> argv, text |-> <<>>, env |-> None]
\* createTerminal({ name, location, env }), show(), sendText(text)
CreateTerminal(name, env, text) ==
    [api |-> "createTerminal", file |-> name, argv |-> <<>>, text |-> text, env |-> env]
ShowSimpleBrowser(url) ==
    [api |-> "simpleBrowser.show", file |-> <<>>, argv |-> <<>>, text |-> url, env |-> None]
ShowErrorMessage(text) ==
    [api |-> "showErrorMessage", file |-> <<>>, argv |-> <<>>, text |-> text, env |-> None]

\* cmdData.commands.join(' && ') and cmdData.commands.join('; ')
CmdJoined(cmdData) == Join(Val(cmdData.commands), Lit(" && "))
PsJoined(cmdData) == Join(Val(cmdData.commands), Lit("; "))

\* process.platform === 'win32', external terminal, cmdData.runAsAdmin
WindowsAdminTerminal(cmdData, termPath, isPowerShell, isBash, isWindowsTerminal) ==
    LET cmdJoined == CmdJoined(cmdData)
        shellCommands == IF isPowerShell /\ ~isWindowsTerminal
                         THEN PsJoined(cmdData) ELSE cmdJoined
        escapedCmd == ReplaceAll(ReplaceAll(shellCommands, "'", <<"'", "'">>),
                                 "\"", <<Backtick, "\"">>)
        cmdSwitch == IF IsTrue(cmdData.autoClose) THEN Lit("/c") ELSE Lit("/k")
        cmdQuoted == ReplaceAll(cmdJoined, "'", <<"'", "'">>)
        bashCmd == ReplaceAll(cmdJoined, "'", <<"'", "\\", "'", "'">>)
    IN  IF isWindowsTerminal
        THEN Exec(Lit("powershell -Command \"Start-Process wt -ArgumentList 'cmd ")
                  \o cmdSwitch \o Lit(" ") \o cmdQuoted \o Lit("' -Verb RunAs\""))
        ELSE IF isPowerShell
        THEN IF IsTrue(cmdData.autoClose)
             THEN Exec(Lit("powershell -Command \"Start-Process ") \o termPath
                       \o Lit(" -ArgumentList '-Command ") \o escapedCmd
                       \o Lit("' -Verb RunAs\""))
             ELSE Exec(Lit("powershell -Command \"Start-Process ") \o termPath
                       \o Lit(" -ArgumentList '-NoExit -Command ") \o escapedCmd
                       \o Lit("' -Verb RunAs\""))
        ELSE IF isBash
        THEN IF IsTrue(cmdData.autoClose)
             THEN Exec(Lit("powershell -Command \"Start-Process '") \o termPath
                       \o Lit("' -ArgumentList '-c','") \o bashCmd
                       \o Lit("' -Verb RunAs\""))
             ELSE Exec(Lit("powershell -Command \"Start-Process '") \o termPath
                       \o Lit("' -ArgumentList '-c','") \o bashCmd
                       \o Lit("; read' -Verb RunAs\""))
        ELSE Exec(Lit("powershell -Command \"Start-Process cmd -ArgumentList '")
                  \o cmdSwitch \o Lit(" ") \o cmdQuoted \o Lit("' -Verb RunAs\""))

\* process.platform === 'win32', external terminal, no elevation
WindowsPlainTerminal(cmdData, termPath, isPowerShell, isBash, isWindowsTerminal) ==
    LET cmdJoined == CmdJoined(cmdData)
        psJoined == PsJoined(cmdData)
        cmdSwitch == IF IsTrue(cmdData.autoClose) THEN Lit("/c") ELSE Lit("/k")
    IN  IF isWindowsTerminal
        THEN Spawn("wt", <<Lit("cmd"), cmdSwitch, cmdJoined>>)
        ELSE IF isPowerShell
        THEN IF IsTrue(cmdData.autoClose)
             THEN Spawn("cmd", <<Lit("/c"), Lit("start"), termPath, Lit("-Command"), psJoined>>)
             ELSE Spawn("cmd", <<Lit("/c"), Lit("start"), termPath, Lit("-NoExit"),
                                 Lit("-Command"), psJoined>>)
        ELSE IF isBash
        THEN IF IsTrue(cmdData.autoClose)
             THEN Spawn("cmd", <<Lit("/c"), Lit("start"), termPath, Lit("-c"), cmdJoined>>)
             ELSE Spawn("cmd", <<Lit("/c"), Lit("start"), termPath, Lit("-c"),
                                 cmdJoined \o Lit("; read -p 'Press Enter to close...'")>>)
        ELSE Spawn("cmd", <<Lit("/c"), Lit("start"), Lit("cmd"), cmdSwitch, cmdJoined>>)

\* process.platform === 'win32', external terminal
WindowsTerminal(cmdData, selectedProfile) ==
    LET termPath == IF Has(selectedProfile) THEN Val(selectedProfile).path ELSE CmdPath
        isPowerShell == Includes(termPath, Lit("powershell")) \/ Includes(termPath, Lit("pwsh"))
        isBash == Includes(termPath, Lit("bash"))
        isWindowsTerminal == termPath = Lit("wt") \/ Includes(termPath, <<"wt", ".exe">>)
    IN  IF IsTrue(cmdData.runAsAdmin)
        THEN WindowsAdminTerminal(cmdData, termPath, isPowerShell, isBash, isWindowsTerminal)
        ELSE WindowsPlainTerminal(cmdData, termPath, isPowerShell, isBash, isWindowsTerminal)

\* process.platform === 'darwin', external terminal
DarwinTerminal(cmdData, selectedProfile) ==
    LET escaped == ReplaceAll(ReplaceAll(ReplaceAll(CmdJoined(cmdData),
                                                    "\\", <<"\\", "\\">>),
                                         "\"", <<"\\", "\"">>),
                              "'", <<"'", "\\", "'", "'">>)
    IN  IF Has(selectedProfile) /\ Val(selectedProfile).name = Lit("iTerm2")
        THEN Exec(Lit("osascript -e 'tell app \"iTerm\" to create window with default profile command \"")
                  \o escaped \o Lit("\"'"))
        ELSE Exec(Lit("osascript -e 'tell app \"Terminal\" to do script \"")
                  \o escaped \o Lit("\"'"))

\* any other platform, external terminal
LinuxTerminal(cmdData, selectedProfile) ==
    LET escaped == ReplaceAll(ReplaceAll(CmdJoined(cmdData), "\"", <<"\\", "\"">>),
                              "'", <<"'", "\\", "'", "'">>)
        termPath == IF Has(selectedProfile) THEN Val(selectedProfile).path
                    ELSE Lit("gnome-terminal")
        keep == escaped \o Lit("; exec bash")
    IN  IF termPath = Lit("gnome-terminal")
        THEN Spawn("gnome-terminal", <<Lit("--"), Lit("bash"), Lit("-c"), keep>>)
        ELSE IF termPath = Lit("konsole")
        THEN Spawn("konsole", <<Lit("-e"), Lit("bash"), Lit("-c"), keep>>)
        ELSE IF termPath = Lit("xfce4-terminal")
        THEN Spawn("xfce4-terminal", <<Lit("-e"), Lit("bash -c '") \o keep \o Lit("'")>>)
        ELSE IF termPath = Lit("xterm")
        THEN Spawn("xterm", <<Lit("-e"), Lit("bash"), Lit("-c"), keep>>)
        ELSE Exec(termPath \o Lit(" -e bash -c \"") \o keep \o Lit("\""))

\* the internal VS Code terminal
InternalTerminal(cmdData, plat) ==
    LET internalCommands == IF plat = "win32" THEN PsJoined(cmdData) ELSE CmdJoined(cmdData)
    IN  IF IsTrue(cmdData.autoClose)
        THEN IF plat = "win32"
             THEN CreateTerminal(cmdData.name, cmdData.env,
                                 Lit("try { ") \o PsJoined(cmdData) \o Lit(" } finally { exit }"))
             ELSE CreateTerminal(cmdData.name, cmdData.env,
                                 Lit("trap 'exit' INT; ") \o CmdJoined(cmdData) \o Lit("; exit"))
        ELSE CreateTerminal(cmdData.name, cmdData.env, internalCommands)

\* TerminalCalls opening one internal terminal for each command
TerminalCallsPerCommand(cmdData, plat, inst) ==
    IF Has(cmdData.commands)
    THEN [k \in 1..Len(Val(cmdData.commands)) |->
            CreateTerminal(cmdData.name, cmdData.env, Val(cmdData.commands)[k])]
    ELSE <<>>

\* "Run terminal commands if present": the calls it issues, none or one
TerminalCalls(cmdData, plat, inst) ==
    IF Has(cmdData.commands) /\ Len(Val(cmdData.commands)) > 0
    THEN IF IsTrue(cmdData.externalTerminal)
         THEN LET selectedProfile == SelectedProfile(cmdData, GetTerminalProfiles(plat, inst))
              IN  CASE plat = "win32" -> <<WindowsTerminal(cmdData, selectedProfile)>>
                    [] plat = "darwin" -> <<DarwinTerminal(cmdData, selectedProfile)>>
                    [] OTHER -> <<LinuxTerminal(cmdData, selectedProfile)>>
         ELSE <<InternalTerminal(cmdData, plat)>>
    ELSE <<>>

----------------------------------------------------------------------------
(* The run dispatcher: URLs, programs, and the handler's suspensions *)

\* the args of a program: a string (ProgramItem.args) or the deprecated array of tokens
ArgsString(s) == [isArray |-> FALSE, string |-> s, array |-> <<>>]
ArgsArray(a) == [isArray |-> TRUE, string |-> <<>>, array |-> a]

UrlItem(url, external) == [url |-> url, external |-> external]
ProgramItem(path, args) == [path |-> path, args |-> args]

\* cmdData.urls || (cmdData.url ? [{ url: cmdData.url }] : [])
RunUrlsNewOnly(cmdData) == IF Has(cmdData.urls) THEN Val(cmdData.urls) ELSE <<>>
RunUrls(cmdData) ==
    IF Has(cmdData.urls) THEN Val(cmdData.urls)
    ELSE IF Truthy(cmdData.url) THEN <<UrlItem(Val(cmdData.url), None)>>
    ELSE <<>>

\* cmdData.programs || (cmdData.program ? [{ path: cmdData.program, args: cmdData.args }] : [])
RunPrograms(cmdData) ==
    IF Has(cmdData.programs) THEN Val(cmdData.programs)
    ELSE IF Truthy(cmdData.program)
    THEN <<ProgramItem(Val(cmdData.program),
                       IF Has(cmdData.args) THEN Some(ArgsArray(Val(cmdData.args))) ELSE None)>>
    ELSE <<>>

\* Array.isArray(prog.args) ? prog.args.join(' ') : (prog.args || '')
ArgsStr(prog) ==
    IF ~Has(prog.args) THEN <<>>
    ELSE IF Val(prog.args).isArray THEN Join(Val(prog.args).array, <<" ">>)
    ELSE Val(prog.args).string

\* prog.path.includes(' ') ? `"${prog.path}"` : prog.path
QuotedPath(prog) ==
    IF Includes(prog.path, <<" ">>) THEN <<"\"">> \o prog.path \o <<"\"">> ELSE prog.path

\* argsStr ? `${quotedPath} ${argsStr}` : quotedPath
FullCmd(prog) ==
    IF ArgsStr(prog) # <<>> THEN QuotedPath(prog) \o <<" ">> \o ArgsStr(prog)
    ELSE QuotedPath(prog)

\* every URL handed to the Simple Browser
UrlCallEmbedded(urlItem, plat) == ShowSimpleBrowser(urlItem.url)

\* one URL: the system browser when external === true, else the Simple Browser
UrlCall(urlItem, plat) ==
    IF urlItem.external = Some(TRUE)
    THEN CASE plat = "win32" -> Exec(Lit("start \"\" \"") \o urlItem.url \o Lit("\""))
           [] plat = "darwin" -> Exec(Lit("open \"") \o urlItem.url \o Lit("\""))
           [] OTHER -> Exec(Lit("xdg-open \"") \o urlItem.url \o Lit("\""))
    ELSE ShowSimpleBrowser(urlItem.url)

\* a call as run r issued it; ref is the position of the URL or the program in its
\* list, and for a callback the position in effects of the launch it reports on
Issue(r, kind, call, ref) == [run |-> r, kind |-> kind, call |-> call, ref |-> ref]

\* an invocation of the handler: the action it read, the URL list it resolved,
\* the URL it is at, where it is suspended, and the program list once resolved
\* cmdData is the object of the store itself (getCommandData returns
\* this.commands[item.index], not a copy); triggered keeps what that object held
\* when the handler started, and index is item.index
Run(cmdData, urls) ==
    [cmdData |-> cmdData, urls |-> urls, i |-> 0, pc |-> "start", programs |-> <<>>,
     triggered |-> cmdData, index |-> -1]

\* for (const prog of programs) exec(fullCmd, callback): all in one go
ProgramLaunches(r, cmdData) ==
    [k \in 1..Len(RunPrograms(cmdData)) |->
        Issue(r, "program", Exec(FullCmd(RunPrograms(cmdData)[k])), k - 1)]

\* the program list read again from the store, at the index of the item
AfterUrlRereading(r, run, i) ==
    LET now == IF IsCommand(commands, run.index) THEN At(commands, run.index)
               ELSE [run.cmdData EXCEPT !.programs = None, !.program = None]
    IN  IF i + 1 < Len(run.urls)
        THEN [run |-> [run EXCEPT !.pc = "delay", !.i = i + 1], issued |-> <<>>]
        ELSE [run |-> [run EXCEPT !.pc = "done", !.i = i + 1,
                                  !.programs = RunPrograms(now)],
              issued |-> ProgramLaunches(r, now)]

\* the handler from the end of iteration i of the URL loop up to the next await:
\* the delay of iteration i + 1, or the program launches and the end
AfterUrl(r, run, i) ==
    IF i + 1 < Len(run.urls)
    THEN [run |-> [run EXCEPT !.pc = "delay", !.i = i + 1], issued |-> <<>>]
    ELSE [run |-> [run EXCEPT !.pc = "done", !.i = i + 1,
                              !.programs = RunPrograms(run.cmdData)],
          issued |-> ProgramLaunches(r, run.cmdData)]

\* iteration i of the URL loop from after its delay up to the next await
OpenUrl(r, run, i, plat) ==
    LET urlItem == At(run.urls, i)
        open == Issue(r, "url", UrlCall(urlItem, plat), i)
    IN  IF urlItem.external = Some(TRUE)
        THEN [run |-> AfterUrl(r, run, i).run,
              issued |-> <<open>> \o AfterUrl(r, run, i).issued]
        ELSE [run |-> [run EXCEPT !.pc = "awaitBrowser", !.i = i], issued |-> <<open>>]

\* the handler from its start up to the first await
Started(r, cmdData, plat, inst) ==
    LET run == Run(cmdData, RunUrls(cmdData))
        terminal == [k \in 1..Len(TerminalCalls(cmdData, plat, inst)) |->
                        Issue(r, "terminal", TerminalCalls(cmdData, plat, inst)[k], 0)]
        rest == IF Len(run.urls) = 0 THEN AfterUrl(r, run, -1) ELSE OpenUrl(r, run, 0, plat)
    IN  [run |-> rest.run, issued |-> terminal \o rest.issued]

\* cmdrun.run on an item of the tree
RunCommand(item) ==
    /\ item.kind = "command"
    /\ last' = Handled("cmdrun.run", NoPayload, item)
    /\ before' = commands
    /\ calls' = <<>>
    /\ IF ~IsCommand(commands, item.index)
       THEN UNCHANGED runVars
       ELSE LET started == Started(Len(runs) + 1, At(commands, item.index), platform, installed)
            IN  /\ runs' = Append(runs, [started.run EXCEPT !.index = item.index])
                /\ effects' = effects \o started.issued
                /\ UNCHANGED <<platform, installed>>
    /\ UNCHANGED <<commands, disk, unsaved, hasWorkspace, diskOk, searchFilter, expandedGroups, shown,
                   fsEvent>>
    /\ UNCHANGED uiVars

\* the 100 ms timer of run r fires
RunTimer(r) ==
    /\ runs[r].pc = "delay"
    /\ LET resumed == OpenUrl(r, runs[r], runs[r].i, platform)
       IN  /\ runs' = [runs EXCEPT ![r] = resumed.run]
           /\ effects' = effects \o resumed.issued
    /\ UNCHANGED <<platform, installed>>
    /\ UNCHANGED <<commands, disk, unsaved, hasWorkspace, diskOk, searchFilter, expandedGroups, shown,
                   fsEvent, last, before, calls>>
    /\ UNCHANGED uiVars

\* executeCommand('simpleBrowser.show', url) of run r resolves
BrowserResolved(r) ==
    /\ runs[r].pc = "awaitBrowser"
    /\ LET resumed == AfterUrl(r, runs[r], runs[r].i)
       IN  /\ runs' = [runs EXCEPT ![r] = resumed.run]
           /\ effects' = effects \o resumed.issued
    /\ UNCHANGED <<platform, installed>>
    /\ UNCHANGED <<commands, disk, unsaved, hasWorkspace, diskOk, searchFilter, expandedGroups, shown,
                   fsEvent, last, before, calls>>
    /\ UNCHANGED uiVars

\* executeCommand('simpleBrowser.show', url) of run r rejects: the await throws
\* and the handler ends there
BrowserRejected(r) ==
    /\ runs[r].pc = "awaitBrowser"
    /\ runs' = [runs EXCEPT ![r].pc = "failed"]
    /\ UNCHANGED <<platform, installed, effects>>
    /\ UNCHANGED <<commands, disk, unsaved, hasWorkspace, diskOk, searchFilter, expandedGroups, shown,
                   fsEvent, last, before, calls>>
    /\ UNCHANGED uiVars

\* the callback of the exec that launched a program, with an error (without one
\* the callback does nothing)
ProgramFailed(k) ==
    /\ effects[k].kind = "program"
    /\ \A j \in 1..Len(effects) : ~(effects[j].kind = "callback" /\ effects[j].ref = k)
    /\ LET prog == At(RunPrograms(runs[effects[k].run].cmdData), effects[k].ref)
       IN  effects' = Append(effects,
                Issue(effects[k].run, "callback",
                      ShowErrorMessage(Lit("Failed to launch ") \o prog.path \o Lit(": ")
                                       \o Lit("error.message")),
                      k))
    /\ UNCHANGED <<platform, installed, runs>>
    /\ UNCHANGED <<commands, disk, unsaved, hasWorkspace, diskOk, searchFilter, expandedGroups, shown,
                   fsEvent, last, before, calls>>
    /\ UNCHANGED uiVars

----------------------------------------------------------------------------
(* The form panel: CommandFormPanel *)

\* existingData?.urls || (existingData?.url ? [{ url: existingData.url }] : [])
FormUrls(existingData) ==
    IF ~Has(existingData) THEN <<>>
    ELSE IF Has(Val(existingData).urls) THEN Val(Val(existingData).urls)
    ELSE IF Truthy(Val(existingData).url) THEN <<UrlItem(Val(Val(existingData).url), None)>>
    ELSE <<>>

\* existingData?.programs || (existingData?.program
\*     ? [{ path, args: Array.isArray(args) ? args.join(' ') : args }] : [])
FormPrograms(existingData) ==
    IF ~Has(existingData) THEN <<>>
    ELSE IF Has(Val(existingData).programs) THEN Val(Val(existingData).programs)
    ELSE IF Truthy(Val(existingData).program)
    THEN <<ProgramItem(Val(Val(existingData).program),
                       IF Has(Val(existingData).args)
                       THEN Some(ArgsString(Join(Val(Val(existingData).args), <<" ">>)))
                       ELSE None)>>
    ELSE <<>>

\* _getHtmlContent(existingData): the values the page starts from
HtmlContent(existingData) ==
    [ name |-> IF Has(existingData) THEN Val(existingData).name ELSE <<>>,
      group |-> IF Has(existingData) /\ Truthy(Val(existingData).group)
                THEN Val(Val(existingData).group) ELSE <<>>,
      commands |-> IF Has(existingData) /\ Has(Val(existingData).commands)
                   THEN Val(Val(existingData).commands) ELSE <<>>,
      autoClose |-> Has(existingData) /\ IsTrue(Val(existingData).autoClose),
      terminalProfile |-> IF Has(existingData) /\ Truthy(Val(existingData).terminalProfile)
                          THEN Val(Val(existingData).terminalProfile) ELSE <<>>,
      runAsAdmin |-> Has(existingData) /\ IsTrue(Val(existingData).runAsAdmin),
      urls |-> FormUrls(existingData),
      programs |-> FormPrograms(existingData),
      envVars |-> IF Has(existingData) /\ Has(Val(existingData).env)
                  THEN Val(Val(existingData).env) ELSE <<>> ]

\* CommandFormPanel.currentPanel === undefined
\* panels is the number of webview panels created and not disposed
NoForm ==
    [ open |-> FALSE, onSave |-> "none", isEdit |-> FALSE, editIndex |-> None,
      existingData |-> None, existingGroups |-> {}, html |-> HtmlContent(None),
      panels |-> 0 ]

\* Show calling createWebviewPanel whether or not a panel is current (the panels
\* are counted up to two)
ShowCreating(panel, onSave, existingData, editIndex, existingGroups) ==
    [ open |-> TRUE, onSave |-> onSave, isEdit |-> Has(existingData),
      editIndex |-> editIndex, existingData |-> existingData,
      existingGroups |-> existingGroups, html |-> HtmlContent(existingData),
      panels |-> Min(panel.panels + 1, 2) ]

\* CommandFormPanel.show: the open panel retargeted, or a panel created. isEdit is
\* the !!existingData the constructor's message handler closed over
Show(panel, onSave, existingData, editIndex, existingGroups) ==
    [ open |-> TRUE, onSave |-> onSave,
      isEdit |-> IF panel.open THEN panel.isEdit ELSE Has(existingData),
      editIndex |-> editIndex, existingData |-> existingData,
      existingGroups |-> existingGroups, html |-> HtmlContent(existingData),
      panels |-> IF panel.open THEN panel.panels ELSE panel.panels + 1 ]

\* this._panel.dispose() and, from onDidDispose, dispose(): the panel is gone and
\* CommandFormPanel.currentPanel = undefined
Disposed(panel) == [NoForm EXCEPT !.panels = panel.panels - 1]

\* the prefixes of one group path: parts.slice(0, i).join('/') for i in 1..parts.length
PathPrefixes(group) ==
    {Join(SubSeq(Split(group), 1, i), <<"/">>) : i \in 1..Len(Split(group))}

\* getAllGroups(): the sorted array of the group paths, as the set it lists
GetAllGroups(cmds) ==
    UNION {PathPrefixes(Val(cmds[i].group)) : i \in {k \in 1..Len(cmds) : Truthy(cmds[k].group)}}

\* showEditForm(item) (cmdrun.edit)
ShowEditForm(item) ==
    /\ item.kind = "command"
    /\ last' = Handled("cmdrun.edit", NoPayload, item)
    /\ before' = commands
    /\ IF ~IsCommand(commands, item.index)
       THEN /\ calls' = <<>>
            /\ UNCHANGED form
       ELSE IF ForOfThrows(commands)
       THEN /\ calls' = <<"TypeError">>
            /\ UNCHANGED form
       ELSE /\ calls' = <<>>
            /\ form' = Show(form, "edit", Some(At(commands, item.index)), Some(item.index),
                            GetAllGroups(commands))
    /\ UNCHANGED <<prompt, dialog, exported>>
    /\ UNCHANGED <<commands, disk, unsaved, hasWorkspace, diskOk, searchFilter, expandedGroups, shown,
                   fsEvent>>
    /\ UNCHANGED runVars

----------------------------------------------------------------------------
(* The store's own operations: add, edit, delete, duplicate, export, import *)

\* no export or import dialog is open
NoDialog == [at |-> "none", imported |-> <<>>]

\* whether getChildren throws: with no filter it walks the store with for...of,
\* with a filter it calls matchesSearch on what filter() hands it
ViewThrows(cmds, filter) == IF filter = <<>> THEN ForOfThrows(cmds) ELSE FilterThrows(cmds)

\* the items the tree holds: none when getChildren throws
ViewItems == IF ViewThrows(commands, searchFilter) THEN {} ELSE TreeItems

\* what a handler did, with the data and the index it was given
HandledData(op, data, index) == Handled(op, CommandsPayload(<<index>>), CommandItem(data, index))

\* this.commands[index] = data: past the end the array grows, and the slots between
\* stay empty
SetAt(cmds, index, data) ==
    IF index < Len(cmds) THEN [cmds EXCEPT ![index + 1] = data]
    ELSE cmds \o [k \in 1..(index - Len(cmds)) |-> EmptySlot] \o <<data>>

\* showAddForm(prefilledGroup) (cmdrun.add, cmdrun.addToGroup)
ShowAddForm(prefilledGroup) ==
    /\ last' = Handled("showAddForm", GroupPayload(IF Has(prefilledGroup)
                                                   THEN Val(prefilledGroup) ELSE <<>>), NoItem)
    /\ before' = commands
    /\ IF ForOfThrows(commands)
       THEN /\ calls' = <<"TypeError">>
            /\ UNCHANGED form
       ELSE /\ calls' = <<>>
            /\ form' = Show(form, "add",
                            IF Truthy(prefilledGroup)
                            THEN Some(Cmd(<<>>, prefilledGroup)) ELSE None,
                            None, GetAllGroups(commands))
    /\ UNCHANGED <<prompt, dialog, exported>>
    /\ UNCHANGED <<commands, disk, unsaved, hasWorkspace, diskOk, searchFilter, expandedGroups, shown,
                   fsEvent>>
    /\ UNCHANGED runVars

\* the page posts { command: 'save', data }: this._onSave(data, isEdit, this._editIndex),
\* then the panel is disposed
FormSave(data) ==
    /\ form.open
    /\ last' = HandledData(IF form.onSave = "add" THEN "onSave.add" ELSE "onSave.edit", data,
                           IF Has(form.editIndex) THEN Val(form.editIndex) ELSE -1)
    /\ before' = commands
    /\ IF form.onSave = "add"
       THEN /\ commands' = Append(commands, data)
            /\ SaveAndRefresh(commands')
       ELSE IF Has(form.editIndex)
       THEN /\ commands' = SetAt(commands, Val(form.editIndex), data)
            /\ SaveAndRefresh(commands')
       ELSE /\ calls' = <<>>
            /\ UNCHANGED <<commands, disk, unsaved, fsEvent, shown>>
    /\ form' = Disposed(form)
    /\ UNCHANGED <<prompt, dialog, exported>>
    /\ UNCHANGED <<hasWorkspace, diskOk, searchFilter, expandedGroups>>
    /\ UNCHANGED runVars

\* the page posts { command: 'cancel' }, or the user closes the panel
FormCancel ==
    /\ form.open
    /\ form' = Disposed(form)
    /\ last' = Handled("form.cancel", NoPayload, NoItem)
    /\ before' = commands
    /\ calls' = <<>>
    /\ UNCHANGED <<prompt, dialog, exported>>
    /\ UNCHANGED <<commands, disk, unsaved, hasWorkspace, diskOk, searchFilter, expandedGroups, shown,
                   fsEvent>>
    /\ UNCHANGED runVars

\* deleteCommand(item) up to its await: the modal warning names item.data.name
DeleteCommand(item) ==
    /\ item.kind = "command"
    /\ prompt = None
    /\ prompt' = Some([index |-> item.index, name |-> Val(item.data).name])
    /\ last' = Handled("deleteCommand", NoPayload, item)
    /\ before' = commands
    /\ calls' = <<"showWarningMessage">>
    /\ UNCHANGED <<form, dialog, exported>>
    /\ UNCHANGED <<commands, disk, unsaved, hasWorkspace, diskOk, searchFilter, expandedGroups, shown,
                   fsEvent>>
    /\ UNCHANGED runVars

\* the warning resolves to 'Delete'
DeleteConfirmed ==
    /\ Has(prompt)
    /\ commands' = Splice(commands, Val(prompt).index, 1, <<>>)
    /\ SaveAndRefresh(commands')
    /\ prompt' = None
    /\ last' = Handled("deleteCommand.confirm", CommandsPayload(<<Val(prompt).index>>), NoItem)
    /\ before' = commands
    /\ UNCHANGED <<form, dialog, exported>>
    /\ UNCHANGED <<hasWorkspace, diskOk, searchFilter, expandedGroups>>
    /\ UNCHANGED runVars

\* the warning is dismissed
DeleteDismissed ==
    /\ Has(prompt)
    /\ prompt' = None
    /\ last' = Handled("deleteCommand.dismiss", CommandsPayload(<<Val(prompt).index>>), NoItem)
    /\ before' = commands
    /\ calls' = <<>>
    /\ UNCHANGED <<form, dialog, exported>>
    /\ UNCHANGED <<commands, disk, unsaved, hasWorkspace, diskOk, searchFilter, expandedGroups, shown,
                   fsEvent>>
    /\ UNCHANGED runVars

\* JSON.parse(JSON.stringify(original)) with the name followed by ' (copy)'
CopyOf(original) ==
    [ParseCommand(StringifyCommand(original)) EXCEPT !.name = original.name \o Lit(" (copy)")]

\* duplicateCommand with const copy = original in the place of the deep copy: the
\* name assigned to the copy is that of the original too
DuplicateCommandSharing(item) ==
    /\ item.kind = "command"
    /\ last' = Handled("duplicateCommand", NoPayload, item)
    /\ before' = commands
    /\ IF ~IsCommand(commands, item.index)
       THEN /\ calls' = <<>>
            /\ UNCHANGED <<commands, disk, unsaved, fsEvent, shown>>
       ELSE /\ commands' =
                    LET copy == [At(commands, item.index) EXCEPT !.name = @ \o Lit(" (copy)")]
                    IN  Splice([commands EXCEPT ![item.index + 1] = copy],
                               item.index + 1, 0, <<copy>>)
            /\ SaveAndRefresh(commands')
    /\ UNCHANGED uiVars
    /\ UNCHANGED <<hasWorkspace, diskOk, searchFilter, expandedGroups>>
    /\ UNCHANGED runVars

\* duplicateCommand(item)
DuplicateCommand(item) ==
    /\ item.kind = "command"
    /\ last' = Handled("duplicateCommand", NoPayload, item)
    /\ before' = commands
    /\ IF ~IsCommand(commands, item.index)
       THEN /\ calls' = <<>>
            /\ UNCHANGED <<commands, disk, unsaved, fsEvent, shown>>
       ELSE /\ commands' = Splice(commands, item.index + 1, 0,
                                  <<CopyOf(At(commands, item.index))>>)
            /\ SaveAndRefresh(commands')
    /\ UNCHANGED uiVars
    /\ UNCHANGED <<hasWorkspace, diskOk, searchFilter, expandedGroups>>
    /\ UNCHANGED runVars

\* exportConfig() up to its await: an empty store is refused with a warning
ExportConfig ==
    /\ dialog.at = "none"
    /\ last' = Handled("exportConfig", NoPayload, NoItem)
    /\ before' = commands
    /\ IF Len(commands) = 0
       THEN /\ calls' = <<"showWarningMessage">>
            /\ UNCHANGED dialog
       ELSE /\ calls' = <<"showSaveDialog">>
            /\ dialog' = [dialog EXCEPT !.at = "save"]
    /\ UNCHANGED <<form, prompt, exported>>
    /\ UNCHANGED <<commands, disk, unsaved, hasWorkspace, diskOk, searchFilter, expandedGroups, shown,
                   fsEvent>>
    /\ UNCHANGED runVars

\* the save dialog resolves to a file: JSON.stringify({ commands }) is written to it.
\* exported keeps the text written and the store it was written from
ExportChosen ==
    /\ dialog.at = "save"
    /\ dialog' = NoDialog
    /\ exported' = Some([text |-> Stringify(commands), store |-> commands])
    /\ last' = Handled("exportConfig.write", NoPayload, NoItem)
    /\ before' = commands
    /\ calls' = <<"writeFileSync", "showInformationMessage">>
    /\ UNCHANGED <<form, prompt>>
    /\ UNCHANGED <<commands, disk, unsaved, hasWorkspace, diskOk, searchFilter, expandedGroups, shown,
                   fsEvent>>
    /\ UNCHANGED runVars

\* the save dialog is dismissed
ExportCancelled ==
    /\ dialog.at = "save"
    /\ dialog' = NoDialog
    /\ last' = Handled("exportConfig.cancel", NoPayload, NoItem)
    /\ before' = commands
    /\ calls' = <<>>
    /\ UNCHANGED <<form, prompt, exported>>
    /\ UNCHANGED <<commands, disk, unsaved, hasWorkspace, diskOk, searchFilter, expandedGroups, shown,
                   fsEvent>>
    /\ UNCHANGED runVars

\* importConfig() up to its first await
ImportConfig ==
    /\ dialog.at = "none"
    /\ dialog' = [dialog EXCEPT !.at = "open"]
    /\ last' = Handled("importConfig", NoPayload, NoItem)
    /\ before' = commands
    /\ calls' = <<"showOpenDialog">>
    /\ UNCHANGED <<form, prompt, exported>>
    /\ UNCHANGED <<commands, disk, unsaved, hasWorkspace, diskOk, searchFilter, expandedGroups, shown,
                   fsEvent>>
    /\ UNCHANGED runVars

\* an import that took the parsed commands, or nothing, into the store before it
\* looked at what it had parsed
ImportFileChosenUnvalidated(text) ==
    /\ dialog.at = "open"
    /\ last' = Handled("importConfig.read", NoPayload, NoItem)
    /\ before' = commands
    /\ calls' = <<"showErrorMessage">>
    /\ dialog' = NoDialog
    /\ commands' = IF text.json = "object" /\ Has(ParseCommands(text))
                   THEN Val(ParseCommands(text)) ELSE <<>>
    /\ UNCHANGED <<form, prompt, exported>>
    /\ UNCHANGED <<disk, unsaved, hasWorkspace, diskOk, searchFilter, expandedGroups, shown,
                   fsEvent>>
    /\ UNCHANGED runVars

\* the open dialog resolves to a file holding text: it is read and parsed, and the
\* quick pick is shown unless the text is rejected
ImportFileChosen(text) ==
    /\ dialog.at = "open"
    /\ last' = Handled("importConfig.read", NoPayload, NoItem)
    /\ before' = commands
    /\ IF text.json = "malformed"
       THEN /\ calls' = <<"showErrorMessage">>
            /\ dialog' = NoDialog
       ELSE IF ~Has(ParseCommands(text))
       THEN /\ calls' = <<"showErrorMessage">>
            /\ dialog' = NoDialog
       ELSE /\ calls' = <<"showQuickPick">>
            /\ dialog' = [at |-> "pick", imported |-> Val(ParseCommands(text))]
    /\ UNCHANGED <<form, prompt, exported>>
    /\ UNCHANGED <<commands, disk, unsaved, hasWorkspace, diskOk, searchFilter, expandedGroups, shown,
                   fsEvent>>
    /\ UNCHANGED runVars

\* the open dialog or the quick pick is dismissed
ImportCancelled ==
    /\ dialog.at \in {"open", "pick"}
    /\ dialog' = NoDialog
    /\ last' = Handled("importConfig.cancel", NoPayload, NoItem)
    /\ before' = commands
    /\ calls' = <<>>
    /\ UNCHANGED <<form, prompt, exported>>
    /\ UNCHANGED <<commands, disk, unsaved, hasWorkspace, diskOk, searchFilter, expandedGroups, shown,
                   fsEvent>>
    /\ UNCHANGED runVars

\* `${c.group || ''}::${c.name}`
MergeKey(c) == (IF Truthy(c.group) THEN Val(c.group) ELSE <<>>) \o <<":", ":">> \o c.name

\* ExistingKeys leaving the group out of the keys of the store
ExistingKeysByName(cmds) ==
    {<<":", ":">> \o cmds[i].name : i \in {k \in 1..Len(cmds) : cmds[k].slot = "object"}}

\* new Set(this.commands.map(...)): map passes over the empty slots
ExistingKeys(cmds) == {MergeKey(cmds[i]) : i \in {k \in 1..Len(cmds) : cmds[k].slot = "object"}}

\* the merge loop over the first n imported entries: the store they leave, the keys
\* seen, and whether the loop threw on an entry that is null
RECURSIVE MergeLoop(_, _, _)
MergeLoop(cmds, imported, n) ==
    IF n = 0 THEN [commands |-> cmds, keys |-> ExistingKeys(cmds), threw |-> FALSE]
    ELSE LET sofar == MergeLoop(cmds, imported, n - 1)
             cmd == imported[n]
         IN  IF sofar.threw THEN sofar
             ELSE IF cmd.slot # "object" THEN [sofar EXCEPT !.threw = TRUE]
             ELSE IF MergeKey(cmd) \in sofar.keys THEN sofar
             ELSE [commands |-> Append(sofar.commands, cmd),
                   keys |-> sofar.keys \cup {MergeKey(cmd)},
                   threw |-> FALSE]

\* the quick pick resolves to Merge or Replace. A TypeError inside the try block is
\* caught and shown; saveCommands() and refresh() are then not reached
ImportPicked(label) ==
    /\ dialog.at = "pick"
    /\ dialog' = NoDialog
    /\ last' = Handled(IF label = "Replace" THEN "importConfig.replace" ELSE "importConfig.merge",
                       NoPayload, NoItem)
    /\ before' = commands
    /\ IF label = "Replace"
       THEN /\ commands' = dialog.imported
            /\ LET saved == SaveCommands(commands')
               IN  /\ disk' = saved.disk
                   /\ unsaved' = ~saved.ok
                   /\ fsEvent' = saved.fsEvent
                   /\ calls' = saved.calls \o <<"refresh", "showInformationMessage">>
                   /\ shown' = NoView
       ELSE IF FilterThrows(commands)
       THEN /\ calls' = <<"showErrorMessage">>
            /\ UNCHANGED <<commands, disk, unsaved, fsEvent, shown>>
       ELSE LET merged == MergeLoop(commands, dialog.imported, Len(dialog.imported))
            IN  /\ commands' = merged.commands
                /\ IF merged.threw
                   THEN /\ calls' = <<"showErrorMessage">>
                        /\ UNCHANGED <<disk, unsaved, fsEvent, shown>>
                   ELSE LET saved == SaveCommands(commands')
                        IN  /\ disk' = saved.disk
                            /\ unsaved' = ~saved.ok
                            /\ fsEvent' = saved.fsEvent
                            /\ calls' = <<"showInformationMessage">> \o saved.calls
                                        \o <<"refresh">>
                            /\ shown' = NoView
    /\ UNCHANGED <<form, prompt, exported>>
    /\ UNCHANGED <<hasWorkspace, diskOk, searchFilter, expandedGroups>>
    /\ UNCHANGED runVars

----------------------------------------------------------------------------
(* Activation *)

\* new ListProvider() and setContext(), given the workspace and its file:
\* loadCommands(), no filter, no group stored as expanded
Constructed ==
    /\ diskOk = TRUE
    /\ unsaved = FALSE
    /\ commands = LoadCommands(hasWorkspace, disk).commands
    /\ searchFilter = <<>>
    /\ expandedGroups = {}
    /\ shown = NoView
    /\ fsEvent = "none"
    /\ last = Handled("constructor", NoPayload, NoItem)
    /\ before = <<>>
    /\ calls = LoadCommands(hasWorkspace, disk).calls

\* no run is ever started (the platform then plays no part)
NoRuns ==
    /\ platform = "linux"
    /\ installed = {}
    /\ runs = <<>>
    /\ effects = <<>>

\* no form, no prompt, no dialog, nothing exported yet
NoUi ==
    /\ form = NoForm
    /\ prompt = None
    /\ dialog = NoDialog
    /\ exported = None

----------------------------------------------------------------------------
(* The reorder engine: a store loaded from the file, then drops *)

\* new ListProvider(): loadCommands() of a file that holds one of the stores
Init ==
    /\ hasWorkspace = TRUE
    /\ \E cmds \in InitialStores : disk = Some(Stringify(cmds))
    /\ Constructed
    /\ NoRuns
    /\ NoUi

DropCommandsStep ==
    \E target \in DropTargets : \E indices \in DraggedIndices :
        HandleDropCommands(indices, target)
DropGroupStep ==
    \E target \in DropTargets : \E sourceGroupPath \in DraggedGroups :
        HandleDropGroup(sourceGroupPath, target)

Next == DropCommandsStep \/ DropGroupStep \/ FileChanged

Spec == Init /\ [][Next]_vars

----------------------------------------------------------------------------
(* The tree view: a store loaded from the file, then filter changes,       *)
(* expand / collapse notifications and getChildren calls                   *)

H == Str1("H")
GS == <<"G", "/", "S">>
GSH == <<"G", "/", "S", "/", "H">>
HG == <<"H", "/", "G">>

\* nested groups; text to search in a command line, a deprecated url, a program
\* path, and a deprecated url that an empty urls array hides
ViewStoreNested ==
    << [Cmd(<<"D", "b">>, Some(GSH)) EXCEPT !.commands = Some(<< <<"x", "Y">> >>)],
       [Cmd(B, Some(G)) EXCEPT !.url = Some(<<"a", "Y">>)],
       [Cmd(C, None) EXCEPT !.programs = Some(<< [path |-> <<"b", "X">>, args |-> None] >>)],
       [Cmd(A, Some(H)) EXCEPT !.urls = Some(<<>>), !.url = Some(<<"x">>)],
       Cmd(<<"a">>, Some(GS)) >>

\* top-level groups that first appear in the order H, G, and are not sorted; a
\* command whose group is the empty string
ViewStoreOrder ==
    << Cmd(A, Some(H)),
       Cmd(B, Some(GS)),
       Cmd(C, None),
       [Cmd(<<"D">>, Some(G)) EXCEPT !.program = Some(<<"a">>)],
       Cmd(<<"N">>, Some(HG)),
       Cmd(<<"a", "b">>, Some(<<>>)) >>

\* a group whose subgroups first appear in the order G/T, G/S, with a command of
\* G/T after those of G/S, and a command of its own between them
GT == <<"G", "/", "T">>
GTH == <<"G", "/", "T", "/", "H">>
ViewStoreSub ==
    << Cmd(A, Some(GT)),
       Cmd(B, Some(GS)),
       Cmd(C, Some(G)),
       Cmd(<<"D">>, Some(GTH)),
       Cmd(<<"N">>, Some(G)) >>

\* group paths with an empty segment: a leading slash, a trailing slash, two slashes
ViewStoreSlashes ==
    << Cmd(A, Some(<<"/", "G">>)),
       Cmd(B, Some(<<"G", "/">>)),
       Cmd(C, Some(<<"G", "/", "/", "S">>)),
       Cmd(<<"D">>, Some(G)) >>

ViewStores == {ViewStoreNested, ViewStoreOrder, ViewStoreSub, ViewStoreSlashes}

\* what the user types in the search box
FilterInputs ==
    { <<>>, <<" ">>, <<"a">>, <<"B">>, <<" ", "x", " ">>, <<"g", "/", "s">>, <<"g">>, <<"h">>,
      <<"z">> }

\* the GroupItems the tree view holds from its latest getChildren call
ShownGroups == {shown.items[i] : i \in {j \in 1..Len(shown.items) : shown.items[j].kind = "group"}}

\* setSearchFilter(filter), from the cmdrun.search command
SetSearchFilter(filter) ==
    /\ searchFilter' = Trim(ToLowerCase(filter))
    /\ calls' = <<"refresh">>
    /\ shown' = NoView
    /\ before' = commands
    /\ last' = Handled("setSearchFilter", NoPayload, NoItem)
    /\ UNCHANGED <<commands, disk, unsaved, hasWorkspace, diskOk, expandedGroups, fsEvent>>
    /\ UNCHANGED runVars
    /\ UNCHANGED uiVars

\* clearSearch(), from the cmdrun.clearSearch command
ClearSearch ==
    /\ searchFilter' = <<>>
    /\ calls' = <<"refresh">>
    /\ shown' = NoView
    /\ before' = commands
    /\ last' = Handled("clearSearch", NoPayload, NoItem)
    /\ UNCHANGED <<commands, disk, unsaved, hasWorkspace, diskOk, expandedGroups, fsEvent>>
    /\ UNCHANGED runVars
    /\ UNCHANGED uiVars

\* setGroupExpanded where collapsing a group also drops the flags of the others
SetGroupExpandedCollapsingAll(element, expanded) ==
    /\ element.kind = "group"
    /\ expandedGroups' = IF expanded THEN expandedGroups \cup {element.groupPath} ELSE {}
    /\ calls' = <<"saveExpandedState">>
    /\ before' = commands
    /\ last' = Handled(IF expanded THEN "onDidExpandElement" ELSE "onDidCollapseElement",
                       NoPayload, element)
    /\ UNCHANGED <<commands, disk, unsaved, hasWorkspace, diskOk, searchFilter, shown, fsEvent>>
    /\ UNCHANGED runVars
    /\ UNCHANGED uiVars

\* setGroupExpanded(groupPath, expanded), from onDidExpandElement / onDidCollapseElement
SetGroupExpanded(element, expanded) ==
    /\ element.kind = "group"
    /\ expandedGroups' = IF expanded THEN expandedGroups \cup {element.groupPath}
                         ELSE expandedGroups \ {element.groupPath}
    /\ calls' = <<"saveExpandedState">>
    /\ before' = commands
    /\ last' = Handled(IF expanded THEN "onDidExpandElement" ELSE "onDidCollapseElement",
                       NoPayload, element)
    /\ UNCHANGED <<commands, disk, unsaved, hasWorkspace, diskOk, searchFilter, shown, fsEvent>>
    /\ UNCHANGED runVars
    /\ UNCHANGED uiVars

\* getChildren(element), called by the tree view for the root and for a group it holds
GetChildrenCall(element) ==
    /\ shown' = [read |-> TRUE, element |-> element, filter |-> searchFilter,
                 expanded |-> expandedGroups,
                 items |-> GetChildren(commands, searchFilter, expandedGroups, element)]
    /\ UNCHANGED <<commands, disk, unsaved, hasWorkspace, diskOk, searchFilter, expandedGroups,
                   fsEvent, last, before, calls>>
    /\ UNCHANGED runVars
    /\ UNCHANGED uiVars

InitView ==
    /\ hasWorkspace = TRUE
    /\ \E cmds \in ViewStores : disk = Some(Stringify(cmds))
    /\ Constructed
    /\ NoRuns
    /\ NoUi

SearchStep == \E filter \in FilterInputs : SetSearchFilter(filter)
ExpandStep == \E element \in ShownGroups : SetGroupExpanded(element, TRUE)
CollapseStep == \E element \in ShownGroups : SetGroupExpanded(element, FALSE)
GetChildrenStep == \E element \in {NoItem} \cup ShownGroups : GetChildrenCall(element)

NextView == SearchStep \/ ClearSearch \/ ExpandStep \/ CollapseStep \/ GetChildrenStep

SpecView == InitView /\ [][NextView]_vars

----------------------------------------------------------------------------
(* The run dispatcher: a store of actions of every shape, then runs, the   *)
(* timers and the completions they wait for                                *)

\* how many times the model lets cmdrun.run be invoked
MaxRuns == 2

U == Str1("u")
V == Str1("v")
P == Str1("p")
PQ == <<"p", " ", "q">>
Echo == <<"a">>
Quoted == <<"'", "b", "\"">>

\* the terminal settings of an action
TerminalSetup(externalTerminal, terminalProfile, autoClose, runAsAdmin) ==
    [ externalTerminal |-> externalTerminal, terminalProfile |-> terminalProfile,
      autoClose |-> autoClose, runAsAdmin |-> runAsAdmin ]

\* the settings a cmdrun.json can hold on a platform: the internal terminal, or an
\* external one by default, by the name of a profile of the platform, or by a name
\* that no profile has
TerminalSetups(plat, inst) ==
    {TerminalSetup(None, None, autoClose, runAsAdmin) :
        autoClose \in {None, Some(TRUE)}, runAsAdmin \in {None, Some(TRUE)}}
    \cup
    {TerminalSetup(Some(TRUE), profile, autoClose, runAsAdmin) :
        profile \in {None, Some(Lit("Cmder"))}
                    \cup {Some(GetTerminalProfiles(plat, inst)[k].name) :
                            k \in 1..Len(GetTerminalProfiles(plat, inst))},
        autoClose \in {None, Some(TRUE)},
        runAsAdmin \in {None, Some(TRUE)}}

\* an action of the new shape with two commands, two URLs and two programs
FullAction(setup) ==
    [Cmd(A, None) EXCEPT
        !.commands = Some(<<Echo, Quoted>>),
        !.externalTerminal = setup.externalTerminal,
        !.terminalProfile = setup.terminalProfile,
        !.autoClose = setup.autoClose,
        !.runAsAdmin = setup.runAsAdmin,
        !.urls = Some(<<UrlItem(U, None), UrlItem(V, Some(TRUE))>>),
        !.programs = Some(<<ProgramItem(P, Some(ArgsString(<<"x", " ", "y">>))),
                            ProgramItem(PQ, None)>>)]

\* an action of the deprecated shape: url, program and args
LegacyAction ==
    [Cmd(B, Some(G)) EXCEPT
        !.commands = Some(<<Echo>>),
        !.url = Some(U),
        !.program = Some(P),
        !.args = Some(<<Str1("x"), Str1("y")>>)]

\* an action that holds both shapes
BothAction ==
    [Cmd(C, None) EXCEPT
        !.urls = Some(<<UrlItem(V, Some(FALSE))>>),
        !.url = Some(U),
        !.programs = Some(<<ProgramItem(PQ, Some(ArgsString(Str1("x"))))>>),
        !.program = Some(P)]

\* an action of the deprecated shape with an empty url and a program without args
BareAction ==
    [Cmd(X, None) EXCEPT !.url = Some(<<>>), !.program = Some(P)]

RunStore(setup) == <<FullAction(setup), LegacyAction, BothAction, BareAction>>

InitRun ==
    /\ hasWorkspace = TRUE
    /\ platform \in {"win32", "darwin", "linux"}
    /\ installed \in IF platform = "win32" THEN {{}, {"pwsh", "gitbash", "wt"}} ELSE {{}}
    /\ \E setup \in TerminalSetups(platform, installed) :
            disk = Some(Stringify(RunStore(setup)))
    /\ Constructed
    /\ runs = <<>>
    /\ effects = <<>>
    /\ NoUi

\* cmdrun.run on an item of the tree, while fewer than n runs were started
RunUpTo(n) ==
    \E item \in TreeItems :
        /\ Len(runs) < n
        /\ RunCommand(item)

RunStep == RunUpTo(MaxRuns)
RunTimerStep == \E r \in 1..Len(runs) : RunTimer(r)
BrowserResolvedStep == \E r \in 1..Len(runs) : BrowserResolved(r)
BrowserRejectedStep == \E r \in 1..Len(runs) : BrowserRejected(r)
ProgramFailedStep == \E k \in 1..Len(effects) : ProgramFailed(k)

NextRun ==
    \/ RunStep
    \/ RunTimerStep
    \/ BrowserResolvedStep
    \/ BrowserRejectedStep
    \/ ProgramFailedStep

SpecRun == InitRun /\ [][NextRun]_vars

----------------------------------------------------------------------------
(* The readers of an action's URL and program lists: the run handler, the  *)
(* edit form and the search filter, on a store of actions of every shape   *)

\* what the user types in the search box: text of a URL, of a program path
ListFilters == {<<"U">>, <<"p", " ">>}

\* how many times this specification lets cmdrun.run be invoked
MaxListRuns == 1

\* an action of each shape, run in the internal terminal
ListStore == RunStore(TerminalSetup(None, None, None, None))

InitLists ==
    /\ hasWorkspace = TRUE
    /\ platform = "linux"
    /\ installed = {}
    /\ disk = Some(Stringify(ListStore))
    /\ Constructed
    /\ runs = <<>>
    /\ effects = <<>>
    /\ NoUi

ListRunStep == RunUpTo(MaxListRuns)
EditStep == \E item \in TreeItems : ShowEditForm(item)
SearchListsStep == \E filter \in ListFilters : SetSearchFilter(filter)

NextLists ==
    \/ ListRunStep
    \/ RunTimerStep
    \/ BrowserResolvedStep
    \/ BrowserRejectedStep
    \/ ProgramFailedStep
    \/ EditStep
    \/ SearchListsStep
    \/ ClearSearch
    \/ GetChildrenStep

SpecLists == InitLists /\ [][NextLists]_vars

----------------------------------------------------------------------------
(* The store under its own operations: the forms, delete, duplicate, drops, *)
(* export and import, with or without a workspace folder                   *)

\* the longest store the growing operations are started on
MaxStore == 2

\* how many times ' (copy)' is appended to one name
MaxCopies == 1

D == Str1("D")

\* [A (new shape, external terminal), B (deprecated shape, group G)]
StoreFile == <<FullAction(TerminalSetup(Some(TRUE), None, Some(TRUE), None)), LegacyAction>>

\* what the form posts on save: an action with a name and nothing else
FormData == {Cmd(D, None)}

\* a document with an action the store lacks and one whose group and name it has
MergeDoc == Stringify(<<Cmd(D, None), Cmd(B, Some(G))>>)

\* { "commands": [ { "name": "D" }, null ] }
NullEntryDoc == [json |-> "object", commands |-> Some(<<StringifyCommand(Cmd(D, None)), JsonNull>>)]

\* the files the open dialog can resolve to
ImportDocs == {MalformedText, NoCommandsText, MergeDoc, NullEntryDoc}

\* the modal warning and the dialogs keep the window from other input
Idle == prompt = None /\ dialog.at = "none"

\* one operation at a time: the user is done with the form before the next one
Quiet == Idle /\ ~form.open

InitStore ==
    /\ hasWorkspace = TRUE
    /\ disk = Some(Stringify(StoreFile))
    /\ Constructed
    /\ NoRuns
    /\ NoUi

AddStep == Quiet /\ ShowAddForm(None)
AddToGroupStep ==
    \E item \in ViewItems : Quiet /\ item.kind = "group" /\ ShowAddForm(Some(item.groupPath))
StoreEditStep == \E item \in ViewItems : Quiet /\ ShowEditForm(item)
FormSaveStep ==
    \E data \in FormData :
        /\ Idle
        /\ form.onSave = "add" => Len(commands) < MaxStore
        /\ FormSave(data)
FormCancelStep == Idle /\ FormCancel
DeleteStep == \E item \in ViewItems : Quiet /\ DeleteCommand(item)
Copies(name) == Cardinality({k \in 1..Len(name) : name[k] = " (copy)"})
DuplicateStep ==
    \E item \in ViewItems :
        /\ Quiet
        /\ Len(commands) < MaxStore
        /\ item.kind = "command" => Copies(Val(item.data).name) < MaxCopies
        /\ DuplicateCommand(item)
StoreDropCommandsStep ==
    \E target \in {NoItem} \cup ViewItems : \E source \in ViewItems :
        /\ Quiet
        /\ source.kind = "command"
        /\ HandleDropCommands(<<source.index>>, target)
StoreDropGroupStep ==
    \E target \in {NoItem} \cup ViewItems : \E source \in ViewItems :
        /\ Quiet
        /\ source.kind = "group"
        /\ HandleDropGroup(source.groupPath, target)
ImportStep == Quiet /\ ImportConfig
ImportFileStep == \E text \in ImportDocs : ImportFileChosen(text)
ImportPickStep ==
    \E label \in {"Merge", "Replace"} :
        /\ label = "Merge" => Len(commands) < MaxStore
        /\ ImportPicked(label)

NextStore ==
    \/ AddStep
    \/ AddToGroupStep
    \/ StoreEditStep
    \/ FormSaveStep
    \/ FormCancelStep
    \/ DeleteStep
    \/ DeleteConfirmed
    \/ DeleteDismissed
    \/ DuplicateStep
    \/ StoreDropCommandsStep
    \/ StoreDropGroupStep
    \/ ImportStep
    \/ ImportFileStep
    \/ ImportCancelled
    \/ ImportPickStep
    \/ FileChanged

SpecStore == InitStore /\ [][NextStore]_vars

----------------------------------------------------------------------------
(* Export and import: a store built with the forms and delete, exported,   *)
(* changed again, and replaced by what the exported file holds             *)

InitExport ==
    /\ hasWorkspace \in BOOLEAN
    /\ disk = IF hasWorkspace THEN Some(Stringify(StoreFile)) ELSE None
    /\ Constructed
    /\ NoRuns
    /\ NoUi

\* the form stays open while the tree is used
AddAnyStep == Idle /\ ShowAddForm(None)
EditAnyStep == \E item \in ViewItems : Idle /\ ShowEditForm(item)
DeleteAnyStep == \E item \in ViewItems : Idle /\ DeleteCommand(item)
\* exportConfig, until it has written a file
ExportStep == Idle /\ exported = None /\ ExportConfig
ImportAnyStep == Idle /\ ImportConfig
ExportedFileStep == Has(exported) /\ ImportFileChosen(Val(exported).text)
ReplaceStep == ImportPicked("Replace")

NextExport ==
    \/ AddAnyStep
    \/ EditAnyStep
    \/ FormSaveStep
    \/ DeleteAnyStep
    \/ DeleteConfirmed
    \/ ExportStep
    \/ ExportChosen
    \/ ExportCancelled
    \/ ImportAnyStep
    \/ ExportedFileStep
    \/ ImportCancelled
    \/ ReplaceStep
    \/ FileChanged

SpecExport == InitExport /\ [][NextExport]_vars

----------------------------------------------------------------------------
(* The file and the store: cmdrun.json as the extension finds it, written  *)
(* and deleted from outside, with writes that fail for a while             *)

\* [A, B(group G)]
SmallStore == <<Cmd(A, None), Cmd(B, Some(G))>>

\* what cmdrun.json can hold
FileTexts ==
    {MalformedText, UnreadableText, NoCommandsText, NullEntryDoc, Stringify(SmallStore),
     Stringify(<<Cmd(C, None)>>)}

\* another program writes cmdrun.json; the watcher will report it
ExternalWrite(text) ==
    /\ hasWorkspace
    /\ disk # Some(text)
    /\ disk' = Some(text)
    /\ fsEvent' = IF Has(disk) /\ fsEvent # "delete" THEN "change" ELSE "create"
    /\ UNCHANGED <<commands, unsaved, diskOk, hasWorkspace, searchFilter, expandedGroups, shown,
                   last, before, calls>>
    /\ UNCHANGED runVars
    /\ UNCHANGED uiVars

\* another program deletes cmdrun.json
ExternalDelete ==
    /\ hasWorkspace
    /\ Has(disk)
    /\ disk' = None
    /\ fsEvent' = "delete"
    /\ UNCHANGED <<commands, unsaved, diskOk, hasWorkspace, searchFilter, expandedGroups, shown,
                   last, before, calls>>
    /\ UNCHANGED runVars
    /\ UNCHANGED uiVars

\* writing the file starts to fail (fs.writeFileSync throws), and works again
DiskFails ==
    /\ hasWorkspace
    /\ diskOk
    /\ diskOk' = FALSE
    /\ UNCHANGED <<commands, disk, unsaved, hasWorkspace, searchFilter, expandedGroups, shown,
                   fsEvent, last, before, calls>>
    /\ UNCHANGED runVars
    /\ UNCHANGED uiVars
DiskRecovers ==
    /\ ~diskOk
    /\ diskOk' = TRUE
    /\ UNCHANGED <<commands, disk, unsaved, hasWorkspace, searchFilter, expandedGroups, shown,
                   fsEvent, last, before, calls>>
    /\ UNCHANGED runVars
    /\ UNCHANGED uiVars

InitFile ==
    /\ hasWorkspace \in BOOLEAN
    /\ disk \in IF hasWorkspace THEN {None} \cup {Some(text) : text \in FileTexts} ELSE {None}
    /\ Constructed
    /\ NoRuns
    /\ NoUi

ExternalWriteStep == \E text \in FileTexts : ExternalWrite(text)

NextFile ==
    \/ ExternalWriteStep
    \/ ExternalDelete
    \/ FileChanged
    \/ FileDeleted
    \/ DiskFails
    \/ DiskRecovers
    \/ AddStep
    \/ FormSaveStep
    \/ DuplicateStep
    \/ DeleteStep
    \/ DeleteConfirmed
    \/ DeleteDismissed

SpecFile == InitFile /\ [][NextFile]_vars

----------------------------------------------------------------------------
(* Merge imports: stores and documents whose actions share names and groups *)

\* the name '::A' and the group 'G::'
ColonsA == <<":", ":", "A">>
GColons == <<"G", ":", ":">>

\* [ '::A' (group G) ]
ColonStore == <<Cmd(ColonsA, Some(G))>>

\* a document with the action A of the group 'G::'
ColonDoc == Stringify(<<Cmd(A, Some(GColons))>>)

\* a document that names the same new action twice, and an ungrouped B
TwiceDoc == Stringify(<<Cmd(D, None), Cmd(B, None), Cmd(D, None)>>)

MergeDocs == {MalformedText, NoCommandsText, MergeDoc, NullEntryDoc, ColonDoc, TwiceDoc}

InitMerge ==
    /\ hasWorkspace = TRUE
    /\ disk \in {Some(Stringify(StoreFile)), Some(Stringify(ColonStore))}
    /\ Constructed
    /\ NoRuns
    /\ NoUi

MergeFileStep == \E text \in MergeDocs : ImportFileChosen(text)
MergeStep == Len(commands) <= MaxStore /\ ImportPicked("Merge")

NextMerge ==
    \/ ImportStep
    \/ MergeFileStep
    \/ ImportCancelled
    \/ MergeStep
    \/ DeleteStep
    \/ DeleteConfirmed
    \/ FileChanged

SpecMerge == InitMerge /\ [][NextMerge]_vars

----------------------------------------------------------------------------
(* Runs suspended in their URL loop while the store changes under them:    *)
(* edit and save, delete, drops, import, and the watcher's reload          *)

MaxSnapshotRuns == 1

InitSnapshot ==
    /\ hasWorkspace = TRUE
    /\ disk = Some(Stringify(StoreFile))
    /\ Constructed
    /\ NoRuns
    /\ NoUi

SnapshotRunStep ==
    \E item \in ViewItems :
        /\ Len(runs) < MaxSnapshotRuns
        /\ RunCommand(item)

\* a run is suspended at an await of its URL loop
Suspended == \E r \in 1..Len(runs) : runs[r].pc \in {"delay", "awaitBrowser"}

\* the operations on the store, each while a run is suspended
SnapshotEditStep == Suspended /\ StoreEditStep
SnapshotSaveStep == Suspended /\ FormSaveStep
SnapshotDeleteStep == Suspended /\ DeleteStep
SnapshotConfirmStep == Suspended /\ DeleteConfirmed
SnapshotDropCommandsStep == Suspended /\ StoreDropCommandsStep
SnapshotDropGroupStep == Suspended /\ StoreDropGroupStep
SnapshotImportStep == Suspended /\ ImportStep
SnapshotImportFileStep == Suspended /\ ImportFileStep
SnapshotImportPickStep == Suspended /\ ImportPickStep
SnapshotReloadStep == Suspended /\ FileChanged

NextSnapshot ==
    \/ SnapshotRunStep
    \/ RunTimerStep
    \/ BrowserResolvedStep
    \/ BrowserRejectedStep
    \/ SnapshotEditStep
    \/ SnapshotSaveStep
    \/ SnapshotDeleteStep
    \/ SnapshotConfirmStep
    \/ SnapshotDropCommandsStep
    \/ SnapshotDropGroupStep
    \/ SnapshotImportStep
    \/ SnapshotImportFileStep
    \/ SnapshotImportPickStep
    \/ SnapshotReloadStep

SpecSnapshot == InitSnapshot /\ [][NextSnapshot]_vars

----------------------------------------------------------------------------
(* The expansion state: expand / collapse notifications, filter changes    *)
(* and tree reads, while actions are deleted, dragged and reloaded        *)

\* [A(group G/Sub), B]
ExpansionStore == <<Cmd(A, Some(GSub)), Cmd(B, None)>>

\* workspaceState.get('cmdrun.expandedGroups', []): nothing, or the path of
\* a group the store no longer has
SavedExpanded == {{}, {X}}

\* setContext(context): this.expandedGroups = new Set(saved)
SetContext(saved) == expandedGroups = saved

\* new ListProvider() and setContext(context), as activate calls them
InitExpansion ==
    /\ hasWorkspace = TRUE
    /\ disk = Some(Stringify(ExpansionStore))
    /\ diskOk = TRUE
    /\ unsaved = FALSE
    /\ commands = LoadCommands(hasWorkspace, disk).commands
    /\ searchFilter = <<>>
    /\ \E saved \in SavedExpanded : SetContext(saved)
    /\ shown = NoView
    /\ fsEvent = "none"
    /\ last = Handled("constructor", NoPayload, NoItem)
    /\ before = <<>>
    /\ calls = LoadCommands(hasWorkspace, disk).calls
    /\ NoRuns
    /\ NoUi

ExpansionSearchStep == \E filter \in {<<"a">>, <<"z">>} : SetSearchFilter(filter)

NextExpansion ==
    \/ ExpansionSearchStep
    \/ ClearSearch
    \/ ExpandStep
    \/ CollapseStep
    \/ GetChildrenStep
    \/ DeleteStep
    \/ DeleteConfirmed
    \/ StoreDropCommandsStep
    \/ StoreDropGroupStep
    \/ FileChanged

SpecExpansion == InitExpansion /\ [][NextExpansion]_vars

----------------------------------------------------------------------------
(* Properties of the reorder engine *)

\* the last handler was a drop of commands whose first index is in the store
DroppedCommand ==
    /\ last.op = "handleDrop"
    /\ last.payload.indices # <<>>
    /\ InRange(before, last.payload.indices[1])

\* the store had the value cmds and its command at sourceIndex was dropped on target
DroppedCommandOn(cmds, sourceIndex, target) ==
    /\ before = cmds
    /\ last = Handled("handleDrop", CommandsPayload(<<sourceIndex>>), target)

\* the store had the value cmds and the group sourceGroupPath was dropped on target
DroppedGroupOn(cmds, sourceGroupPath, target) ==
    /\ before = cmds
    /\ last = Handled("handleGroupDrop", GroupPayload(sourceGroupPath), target)

\* C1 as stated: from [A, B(X), C(X)], dropping A onto B yields [B(X), A(X), C(X)]
C1_DropOnBAsStated ==
    DroppedCommandOn(StoreAXX, 0, CommandItem(At(StoreAXX, 1), 1))
        => commands = <<Cmd(B, Some(X)), Cmd(A, Some(X)), Cmd(C, Some(X))>>

\* C1 amended: from [A, B(X), C(X)], dropping A onto B yields [A(X), B(X), C(X)]:
\* A takes the group X and lands immediately before B, at index 0
C1_DropOnB ==
    DroppedCommandOn(StoreAXX, 0, CommandItem(At(StoreAXX, 1), 1))
        => commands = <<Cmd(A, Some(X)), Cmd(B, Some(X)), Cmd(C, Some(X))>>

C1_Witness ==
    /\ DroppedCommandOn(StoreAXX, 0, CommandItem(At(StoreAXX, 1), 1))
    /\ commands = <<Cmd(A, Some(X)), Cmd(B, Some(X)), Cmd(C, Some(X))>>
    /\ calls = <<"saveCommands", "refresh">>

\* C2: from [A(G), B(G/Sub), C], dropping the group G on empty space yields
\* [C, A(G), B(G/Sub)]: the block [A, B] lands immediately after C
C2_GroupToRoot ==
    DroppedGroupOn(StoreGSub, G, NoItem)
        => commands = <<Cmd(C, None), Cmd(A, Some(G)), Cmd(B, Some(GSub))>>

\* C7: dropping the command at a valid index i onto itself leaves the sequence and
\* every command's group unchanged
C7_DropOnItself ==
    (DroppedCommand /\
     last.target = CommandItem(At(before, last.payload.indices[1]), last.payload.indices[1]))
        => commands = before

C7_Witness ==
    /\ DroppedCommandOn(StoreApart, 2, CommandItem(At(StoreApart, 2), 2))
    /\ commands = StoreApart
    /\ calls = <<"saveCommands", "refresh">>

\* the store the drop of cmds[sourceIndex] on empty space should leave: the command,
\* its group cleared, immediately after the last ungrouped command of the others
\* (at the end when none of them is ungrouped)
AfterLastUngrouped(cmds, sourceIndex) ==
    LET moved == [At(cmds, sourceIndex) EXCEPT !.group = None]
        rest == Splice(cmds, sourceIndex, 1, <<>>)
        ungrouped == {i \in 1..Len(rest) : Ungrouped(rest[i])}
        pos == IF ungrouped = {} THEN Len(rest)
               ELSE CHOOSE i \in ungrouped : \A j \in ungrouped : j <= i
    IN  Splice(rest, pos, 0, <<moved>>)

\* the same, the dragged command counting among the ungrouped ones: when it is the
\* last of them it keeps its place
AfterLastUngroupedInPlace(cmds, sourceIndex) ==
    LET ungrouped == {i \in 0..(Len(cmds) - 1) : Ungrouped(At(cmds, i))}
    IN  IF ungrouped # {} /\ \A j \in ungrouped : j <= sourceIndex
        THEN [cmds EXCEPT ![sourceIndex + 1].group = None]
        ELSE AfterLastUngrouped(cmds, sourceIndex)

\* C10: a command dropped on empty space has its group cleared and sits immediately
\* after the last ungrouped command, or at the end of the store when there is none
C10_DropOnEmptySpace ==
    (DroppedCommand /\ last.target = NoItem)
        => commands \in { AfterLastUngrouped(before, last.payload.indices[1]),
                          AfterLastUngroupedInPlace(before, last.payload.indices[1]) }

----------------------------------------------------------------------------
(* Properties of the tree view *)

\* the 0-based store indices of the commands that match the filter of the shown level
MatchingIndices ==
    {i \in 0..(Len(commands) - 1) : MatchesSearch(At(commands, i), shown.filter)}

\* C4: the count of every GroupItem the tree builder emits for a path P is the number
\* of filter-matching commands whose group equals P or starts with P + "/"
C4_GroupCount ==
    \A node \in ShownGroups :
        node.commandCount =
            Cardinality({i \in MatchingIndices :
                LET group == At(commands, i).group
                IN  Has(group) /\ (Val(group) = node.groupPath
                                   \/ StartsWith(Val(group), node.groupPath \o <<"/">>))})

\* a level below the root shows, under a filter, a group whose count is that of the
\* matching commands and is less than the number of commands under it
C4_Witness ==
    /\ shown.read /\ shown.filter # <<>> /\ shown.element.kind = "group"
    /\ \E node \in ShownGroups :
          /\ node.commandCount >= 1
          /\ node.commandCount < GetGroupCommandCount(node.groupPath, commands)

\* the path made of the first n segments of a group path
PathPrefix(group, n) == Join(SubSeq(Split(group), 1, n), <<"/">>)

\* the number of segments of the path of the shown level (0 for the root)
ShownDepth == IF shown.element.kind = "group" THEN Len(Split(shown.element.groupPath)) ELSE 0

\* the matching commands that belong at the shown level itself
MatchingHere ==
    {i \in MatchingIndices :
        IF shown.element.kind = "group"
        THEN At(commands, i).group = Some(shown.element.groupPath)
        ELSE ~Truthy(At(commands, i).group)}

\* the groups one level below the shown level that have a matching descendant
GroupsWithMatchBelow ==
    {PathPrefix(Val(At(commands, i).group), ShownDepth + 1) :
        i \in {j \in MatchingIndices :
                LET group == At(commands, j).group
                IN  /\ Truthy(group)
                    /\ Len(Split(Val(group))) > ShownDepth
                    /\ (shown.element.kind = "group" =>
                            PathPrefix(Val(group), ShownDepth) = shown.element.groupPath)}}

\* C5: while a filter is active every level of the tree holds exactly the matching
\* commands of that level and exactly the groups with a matching descendant, each
\* group once and reported expanded whatever the stored expansion state
C5_FilteredView ==
    (shown.read /\ shown.filter # <<>>) =>
        /\ {it \in {shown.items[i] : i \in 1..Len(shown.items)} : it.kind = "command"}
              = {CommandItem(At(commands, i), i) : i \in MatchingHere}
        /\ {node.groupPath : node \in ShownGroups} = GroupsWithMatchBelow
        /\ Len(shown.items) = Cardinality(MatchingHere) + Cardinality(GroupsWithMatchBelow)
        /\ \A node \in ShownGroups : node.isExpanded

\* under a filter that matches only the command nested at G/S/H, the level G shows
\* the ancestor G/S expanded although it is stored collapsed, and nothing else
C5_Witness ==
    /\ shown.read /\ shown.filter = <<"x">> /\ commands = ViewStoreNested
    /\ shown.element.kind = "group" /\ shown.element.groupPath = G
    /\ shown.items = <<GroupItem(GS, TRUE, 1)>>
    /\ GS \notin shown.expanded

----------------------------------------------------------------------------
(* Properties of the run dispatcher *)

\* the positions in effects of what run r issued, of one kind
IssuedBy(r, kind) == {k \in 1..Len(effects) : effects[k].run = r /\ effects[k].kind = kind}

\* the action has shell commands, URLs and programs, in the new shape or the old
HasCommands(c) == Has(c.commands) /\ Len(Val(c.commands)) > 0
HasUrls(c) == IF Has(c.urls) THEN Len(Val(c.urls)) > 0 ELSE Truthy(c.url)
HasPrograms(c) == IF Has(c.programs) THEN Len(Val(c.programs)) > 0 ELSE Truthy(c.program)

\* a string without the quoting and escaping characters
Unquoted(s) ==
    ReplaceAll(ReplaceAll(ReplaceAll(ReplaceAll(s, "'", <<>>), "\"", <<>>), "\\", <<>>),
               Backtick, <<>>)

\* everything a call hands to the shell, as one string
Payload(call) == call.text \o Join(call.argv, <<>>)

\* the call carries every command of the action, in order, in one string joined
\* by the separator of one of the shells
CarriesAllCommands(call, c) ==
    \E sep \in {Lit(" && "), Lit("; ")} :
        Includes(Unquoted(Payload(call)), Unquoted(Join(Val(c.commands), sep)))

\* C3: in every run of an action that has shell commands, URLs and programs, exactly
\* one terminal invocation, carrying all the commands in one joined string, is issued
\* before the first URL open; every URL open is issued before the first program
\* launch; the program launches are issued one after another, none waiting for the
\* completion of another; and a run that reaches its end has opened every URL and
\* launched every program.
C3_RunOrder ==
    \A r \in 1..Len(runs) :
        LET c == runs[r].cmdData
            terminal == IssuedBy(r, "terminal")
            urlOpens == IssuedBy(r, "url")
            launches == IssuedBy(r, "program")
        IN  (HasCommands(c) /\ HasUrls(c) /\ HasPrograms(c)) =>
                /\ Cardinality(terminal) = 1
                /\ \A t \in terminal : CarriesAllCommands(effects[t].call, c)
                /\ \A t \in terminal : \A u \in urlOpens : t < u
                /\ urlOpens # {}
                /\ \A u \in urlOpens : \A p \in launches : u < p
                /\ \A p \in launches : \A q \in launches :
                        p < q => \A k \in p..q : k \in launches
                /\ launches # {} => Cardinality(launches) = Len(RunPrograms(c))
                /\ runs[r].pc = "done" =>
                        /\ Cardinality(urlOpens) = Len(RunUrls(c))
                        /\ launches # {}

\* a run of the action with two commands, two URLs and two programs came to its
\* end while another run was under way, and a launch reported a failure
C3_Witness ==
    \E r \in 1..Len(runs) :
        /\ runs[r].cmdData.name = A
        /\ runs[r].pc = "done"
        /\ Cardinality(IssuedBy(r, "url")) = 2
        /\ Cardinality(IssuedBy(r, "program")) = 2
        /\ IssuedBy(r, "callback") # {}
        /\ Len(runs) = 2

\* the lists the claim gives for an action: the arrays unchanged, else the
\* one-element wrap of the deprecated fields, else nothing
ClaimedUrls(c) ==
    IF Has(c.urls) THEN Val(c.urls)
    ELSE IF Truthy(c.url) THEN <<[url |-> Val(c.url), external |-> None]>>
    ELSE <<>>
ClaimedPrograms(c) ==
    IF Has(c.programs) THEN Val(c.programs)
    ELSE IF Truthy(c.program)
    THEN <<[path |-> Val(c.program),
            args |-> Some(ArgsString(Join(IF Has(c.args) THEN Val(c.args) ELSE <<>>,
                                          <<" ">>)))]>>
    ELSE <<>>

\* the same programs: as many, with the same paths and the same args once each args
\* is the string handed to the shell
SamePrograms(l, m) ==
    /\ Len(l) = Len(m)
    /\ \A k \in 1..Len(l) : l[k].path = m[k].path /\ ArgsStr(l[k]) = ArgsStr(m[k])
SamePaths(l, m) ==
    /\ Len(l) = Len(m)
    /\ \A k \in 1..Len(l) : l[k].path = m[k].path

----------------------------------------------------------------------------
(* Properties of the store's operations *)

\* the last handler was importConfig with Replace, and it left what the document
\* that exportConfig last wrote holds
ReplacedByExported ==
    /\ last.op = "importConfig.replace"
    /\ Has(exported)
    /\ commands = Val(ParseCommands(Val(exported).text))

\* the store has an empty slot (an index below its length that was never assigned)
HasEmptySlot(cmds) == \E i \in 1..Len(cmds) : cmds[i].slot = "empty"

\* C6: importing with Replace the document that exportConfig wrote from a store
\* leaves a store equal to that store, element for element and in the same order.
C6_ExportImportReplace == ReplacedByExported => commands = Val(exported).store

\* exportConfig wrote a document from a store with an empty slot, and importConfig
\* with Replace read it back: the slot came back as null
C6_EmptySlotComesBackNull ==
    /\ ReplacedByExported
    /\ HasEmptySlot(Val(exported).store)
    /\ Len(commands) = Len(Val(exported).store)
    /\ \A i \in 1..Len(commands) :
            IF Val(exported).store[i].slot = "empty"
            THEN commands[i] = NullSlot
            ELSE commands[i] = Val(exported).store[i]

\* the round trip of a store that has no empty slot gives the store back
RoundTripWithoutEmptySlot ==
    (ReplacedByExported /\ ~HasEmptySlot(Val(exported).store))
        => commands = Val(exported).store
RoundTripWitness ==
    /\ ReplacedByExported
    /\ ~HasEmptySlot(Val(exported).store)
    /\ before # commands
    /\ Len(commands) >= 2

\* the operations that can change the store
StoreChangingOps ==
    {"onSave.add", "onSave.edit", "deleteCommand.confirm", "duplicateCommand",
     "handleDrop", "handleGroupDrop", "importConfig.replace", "importConfig.merge"}

\* saveCommands() was called, and refresh() after it
SavedThenRefreshed ==
    \E i \in 1..Len(calls) : \E j \in (i + 1)..Len(calls) :
        calls[i] = "saveCommands" /\ calls[j] = "refresh"

\* C9: whenever the last handler was one of the operations that change the store
\* and it changed the store, it called saveCommands() on the whole store and then
\* refresh() before it returned.
C9_PersistThenRefresh ==
    (last.op \in StoreChangingOps /\ commands # before)
        => /\ SavedThenRefreshed
           /\ shown = NoView
           /\ (hasWorkspace /\ diskOk) => disk = Some(Stringify(commands))

\* a Merge import that added an action and then threw on a null entry
C9_PartialMerge ==
    /\ last.op = "importConfig.merge"
    /\ commands # before
    /\ ~SavedThenRefreshed
    /\ calls = <<"showErrorMessage">>
    /\ hasWorkspace => disk # Some(Stringify(commands))

\* every store-changing operation other than a Merge import persists and refreshes
PersistThenRefreshButMerge ==
    (last.op \in StoreChangingOps \ {"importConfig.merge"} /\ commands # before)
        => /\ SavedThenRefreshed
           /\ shown = NoView
           /\ (hasWorkspace /\ diskOk) => disk = Some(Stringify(commands))

----------------------------------------------------------------------------
(* Properties of the group drop *)

\* the target of the drop lies under the dragged group: a subgroup of it, or a
\* command whose group is the dragged group or lies under it
OntoDescendant ==
    /\ last.op = "handleGroupDrop"
    /\ \/ /\ last.target.kind = "group"
          /\ StartsWith(last.target.groupPath, last.payload.groupPath \o <<"/">>)
       \/ /\ last.target.kind = "command"
          /\ InGroup(Val(last.target.data), last.payload.groupPath)

\* C11: a group dropped onto one of its own descendants leaves the store as it was:
\* the same commands in the same order.
C11_DropOnDescendant == OntoDescendant => commands = before

\* how many times each command occurs in a store
BagOf(cmds) ==
    [c \in {cmds[i] : i \in 1..Len(cmds)} |-> Cardinality({i \in 1..Len(cmds) : cmds[i] = c})]

\* C12: a group drop changes no command: the store afterwards holds the commands it
\* held before, each with the group it had, and the group paths derived from the
\* store are the same.
C12_GroupDropKeepsGroups ==
    last.op = "handleGroupDrop"
        => /\ BagOf(commands) = BagOf(before)
           /\ GetAllGroups(commands) = GetAllGroups(before)

\* a group drop that moved the commands of a group with a subgroup
C12_Witness ==
    /\ last.op = "handleGroupDrop"
    /\ last.payload.groupPath = G
    /\ commands # before
    /\ GetAllGroups(commands) = {G, GSub}
    /\ calls = <<"saveCommands", "refresh">>

----------------------------------------------------------------------------
(* Properties of the run dispatcher: failures *)

\* run r is over: its handler returned or threw
Over(r) == runs[r].pc \in {"done", "failed"}

\* run r reported a failure to the user
Reported(r) == \E k \in 1..Len(effects) : effects[k].run = r /\ effects[k].call.api = "showErrorMessage"

\* C13: a run in which a launch failed still opens every URL and launches every
\* program of the action, and reports the failure: once the run is over, every URL
\* of its list was opened and every program launched, and a run whose embedded
\* browser call was rejected has shown an error message.
C13_FailureKeepsSiblings ==
    \A r \in 1..Len(runs) :
        Over(r) =>
            /\ Cardinality(IssuedBy(r, "url")) = Len(RunUrls(runs[r].cmdData))
            /\ Cardinality(IssuedBy(r, "program")) = Len(RunPrograms(runs[r].cmdData))
            /\ runs[r].pc = "failed" => Reported(r)

\* the embedded browser rejected the first URL of the action with two URLs and two
\* programs: the run is over with one URL opened and nothing else
C13_AbortedRun ==
    \E r \in 1..Len(runs) :
        /\ runs[r].cmdData.name = A
        /\ runs[r].pc = "failed"
        /\ Cardinality(IssuedBy(r, "url")) = 1
        /\ IssuedBy(r, "program") = {}
        /\ ~Reported(r)

\* a program launch that fails is reported by its path, and the other programs of
\* the run were launched all the same
ProgramFailureReported ==
    \A k \in 1..Len(effects) :
        effects[k].kind = "callback" =>
            LET r == effects[k].run
                prog == At(RunPrograms(runs[r].cmdData), effects[effects[k].ref].ref)
            IN  /\ effects[k].call.api = "showErrorMessage"
                /\ Includes(effects[k].call.text, prog.path)
                /\ Cardinality(IssuedBy(r, "program")) = Len(RunPrograms(runs[r].cmdData))

----------------------------------------------------------------------------
(* Properties of loadCommands and saveCommands *)

\* the last handler was a load, and the file is still the one it read
Loaded == last.op \in {"constructor", "onDidChange"} /\ fsEvent = "none"

\* the document holds an entry that is no action
HasNullEntry(text) ==
    /\ Has(text.commands)
    /\ \E i \in 1..Len(Val(text.commands)) : Val(text.commands)[i].json = "null"

\* a workspace whose cmdrun.json is missing, cannot be read, cannot be parsed, or
\* does not hold a list of actions
SourceMissing == hasWorkspace /\ disk = None
SourceUnreadable == hasWorkspace /\ Has(disk) /\ Val(disk).json \in {"malformed", "unreadable"}
SourceMalformed == hasWorkspace /\ Has(disk) /\ HasNullEntry(Val(disk))

\* C14: a load from a source that is missing, unreadable or malformed leaves the
\* empty store and shows a warning.
C14_LoadFailsSoft ==
    (Loaded /\ (SourceMissing \/ SourceUnreadable \/ SourceMalformed))
        => /\ commands = <<>>
           /\ \E i \in 1..Len(calls) : calls[i] = "showErrorMessage"

\* a file that cannot be read or parsed gives the empty store and an error message
LoadWarnsOnUnreadable ==
    (Loaded /\ SourceUnreadable) => commands = <<>> /\ calls = <<"showErrorMessage">> \o
                                        (IF last.op = "onDidChange" THEN <<"refresh">> ELSE <<>>)

\* the file is missing: the empty store, and no message
C14_MissingIsSilent == Loaded /\ SourceMissing /\ commands = <<>> /\ calls = <<>>

\* the file holds [ { "name": "D" }, null ]: the store takes the null, and no message
C14_NullEntryLoaded ==
    /\ Loaded
    /\ SourceMalformed
    /\ commands = <<Cmd(D, None), NullSlot>>
    /\ \A i \in 1..Len(calls) : calls[i] # "showErrorMessage"
    /\ ViewThrows(commands, searchFilter)

\* the last handler called saveCommands()
Saved == \E i \in 1..Len(calls) : calls[i] = "saveCommands"

\* the last handler replaced the store by what the file holds, or emptied it
\* because the file was deleted
Reloaded == last.op \in {"onDidChange", "onDidDelete"}

\* C15: after a persist that failed, the store in memory stays what the extension
\* works from until a persist succeeds: the failure is shown, the handler goes on
\* to refresh the view, and no reload replaces the store in the meantime.
C15_MemoryAuthoritative ==
    unsaved =>
        /\ Saved => \E i \in 1..Len(calls) : calls[i] = "showErrorMessage"
        /\ Saved => calls[Len(calls)] = "refresh"
        /\ Reloaded => commands = before

\* a persist that fails is reported, and the handler goes on to refresh the view
PersistFailureReported ==
    (Saved /\ unsaved) => calls = <<"saveCommands", "showErrorMessage", "refresh">>

\* the watcher delivered the event of an earlier write after a persist had failed:
\* the store went back to what the file holds and lost what was not written
C15_ReloadAfterFailedPersist ==
    /\ unsaved
    /\ last.op = "onDidChange"
    /\ commands # before
    /\ disk = Some(Stringify(commands))

----------------------------------------------------------------------------
(* Properties of importConfig *)

\* C16: an import that ends before Merge or Replace is chosen, because the file
\* cannot be parsed or has no commands array or because a dialog is dismissed,
\* changes neither the store nor the file.
C16_RejectedImport ==
    [][(last'.op \in {"importConfig.read", "importConfig.cancel"} /\ dialog'.at = "none")
            => (commands' = commands /\ disk' = disk /\ fsEvent' = fsEvent)]_vars

\* a file without a commands array was chosen for a store that holds actions: an
\* error is shown, no quick pick is open, the store is as it was
C16_Witness ==
    /\ last.op = "importConfig.read"
    /\ dialog.at = "none"
    /\ calls = <<"showErrorMessage">>
    /\ commands = before
    /\ Len(commands) = 2
    /\ disk = Some(Stringify(commands))

\* the group and the name of an action, an action without a group and one with
\* the group '' being alike
PairOf(c) == <<IF Truthy(c.group) THEN Val(c.group) ELSE <<>>, c.name>>

\* the merge as the claim has it, over the first n entries of the document: an
\* entry is appended when no action of the store, as it then is, has its group
\* and name
RECURSIVE ClaimedMerge(_, _, _)
ClaimedMerge(cmds, imported, n) ==
    IF n = 0 THEN cmds
    ELSE LET sofar == ClaimedMerge(cmds, imported, n - 1)
             cmd == imported[n]
         IN  IF cmd.slot # "object" THEN sofar
             ELSE IF \E i \in 1..Len(sofar) :
                        sofar[i].slot = "object" /\ PairOf(sofar[i]) = PairOf(cmd)
                  THEN sofar
             ELSE Append(sofar, cmd)

\* C17: a Merge import leaves every action of the store where it was and appends,
\* in the order of the document, exactly the imported actions whose group and name
\* no action of the store has.
C17_MergeAppends ==
    [][(dialog.at = "pick" /\ last'.op = "importConfig.merge")
            => commands' = ClaimedMerge(commands, dialog.imported, Len(dialog.imported))]_vars

\* a Merge import keeps the store it found as the beginning of the store it leaves
MergeKeepsExisting ==
    last.op = "importConfig.merge"
        => Len(commands) >= Len(before) /\ SubSeq(commands, 1, Len(before)) = before

\* the action A of the group 'G::' was merged into the store that holds '::A' of
\* the group G, and was not appended
C17_KeyCollision ==
    /\ last.op = "importConfig.merge"
    /\ before = ColonStore
    /\ commands = ColonStore
    /\ calls = <<"showInformationMessage", "saveCommands", "refresh">>
    /\ fsEvent = "change"

----------------------------------------------------------------------------
(* Properties of the URL loop *)

\* the command line that hands a URL to the default-open mechanism of the platform
DefaultOpen(url) ==
    (CASE platform = "win32" -> Lit("start \"\" \"")
       [] platform = "darwin" -> Lit("open \"")
       [] OTHER -> Lit("xdg-open \"")) \o url \o Lit("\"")

\* the URL opens run r has issued, as positions in effects, in the order issued
UrlOpens(r) ==
    LET S == IssuedBy(r, "url")
    IN  [n \in 1..Cardinality(S) |->
            CHOOSE k \in S : Cardinality({j \in S : j < k}) = n - 1]

\* run r has opened the first URLs of its list, in the order of the list and each
\* once, each through the mechanism its external flag asks for
OpenedInOrder(r) ==
    LET urls == RunUrls(runs[r].cmdData)
        opens == UrlOpens(r)
    IN  /\ Len(opens) <= Len(urls)
        /\ \A n \in 1..Len(opens) :
            LET call == effects[opens[n]].call
            IN  /\ effects[opens[n]].ref = n - 1
                /\ IF urls[n].external = Some(TRUE)
                   THEN call.api = "exec" /\ call.text = DefaultOpen(urls[n].url)
                   ELSE call.api = "simpleBrowser.show" /\ call.text = urls[n].url

\* in this step run r opened a URL that is not the first of its list
OpensLaterUrl(r) ==
    \E k \in (Len(effects) + 1)..Len(effects') :
        effects'[k].run = r /\ effects'[k].kind = "url" /\ effects'[k].ref > 0

\* C18: a run opens the URLs of its list in the order of the list, each once,
\* through the default-open mechanism of the platform when external is true and
\* through the embedded browser otherwise; a run that reaches its end has opened
\* them all; and every open but the first happens when the 100 ms timer the run
\* was suspended on fires.
C18_UrlLoop ==
    /\ [](\A r \in 1..Len(runs) :
            /\ OpenedInOrder(r)
            /\ runs[r].pc = "done" => Len(UrlOpens(r)) = Len(RunUrls(runs[r].cmdData)))
    /\ [][\A r \in 1..MaxRuns :
            OpensLaterUrl(r) => (r <= Len(runs) /\ runs[r].pc = "delay")]_vars

\* a run of the action with an embedded and an external URL has opened both, the
\* second after its delay, while another run was suspended
C18_Witness ==
    \E r \in 1..Len(runs) :
        /\ runs[r].cmdData.name = A
        /\ Len(UrlOpens(r)) = 2
        /\ effects[UrlOpens(r)[1]].call.api = "simpleBrowser.show"
        /\ effects[UrlOpens(r)[2]].call.api = "exec"
        /\ runs[r].pc = "done"
        /\ \E q \in 1..Len(runs) : q # r /\ runs[q].pc \in {"delay", "awaitBrowser"}

----------------------------------------------------------------------------
(* Properties of a run while the store changes *)

\* what run r issued itself, in order: the callbacks of exec come later
EffectsOf(r) ==
    SelectSeq(effects, LAMBDA e : e.run = r /\ e.kind # "callback")

\* what the action that run r was triggered on gives, up to where the run is: the
\* terminal calls, the URLs opened so far, and the programs once the loop is over
SnapshotEffects(r) ==
    LET run == runs[r]
        t == run.triggered
        urls == RunUrls(t)
        opened == CASE run.pc = "delay" -> run.i
                    [] run.pc \in {"awaitBrowser", "failed"} -> run.i + 1
                    [] OTHER -> Len(urls)
        terminal == [k \in 1..Len(TerminalCalls(t, platform, installed)) |->
                        Issue(r, "terminal", TerminalCalls(t, platform, installed)[k], 0)]
        opens == [k \in 1..opened |->
                        Issue(r, "url", UrlCall(At(urls, k - 1), platform), k - 1)]
        launches == IF run.pc = "done" THEN ProgramLaunches(r, t) ELSE <<>>
    IN  terminal \o opens \o launches

----------------------------------------------------------------------------
(* Properties of the expansion state *)

\* every group path a flag can be held for
ExpansionPaths == {G, GSub, X}

\* the GroupItems of the tree as getChildren builds it from the current state
GroupNodes == {it \in ViewItems : it.kind = "group"}

\* the step is an expand or collapse notification for path
NotifiedFor(path) ==
    /\ last'.op \in {"onDidExpandElement", "onDidCollapseElement"}
    /\ last'.target.kind = "group"
    /\ last'.target.groupPath = path

\* C20: the flag of a group path changes only in the step of an expand or collapse
\* notification for that path, so deleting (also the last action of a group),
\* dragging, reloading, filter changes and getChildren leave every flag as it is;
\* and with no filter a GroupItem is built expanded exactly when its path has the
\* flag, which no path has unless a notification set it or setContext restored it
C20_ExpansionFrame ==
    /\ [](/\ expandedGroups \subseteq ExpansionPaths
          /\ searchFilter = <<>> =>
                \A it \in GroupNodes : it.isExpanded = (it.groupPath \in expandedGroups)
          /\ (shown.read /\ shown.filter = <<>>) =>
                \A k \in 1..Len(shown.items) :
                    shown.items[k].kind = "group" =>
                        shown.items[k].isExpanded = (shown.items[k].groupPath \in shown.expanded))
    /\ [][\A path \in ExpansionPaths :
            (path \in expandedGroups') # (path \in expandedGroups) => NotifiedFor(path)]_vars

\* G was expanded, then every action of G was deleted: the store has no group, the
\* flag of G is still held
C20_Witness ==
    /\ G \in expandedGroups
    /\ \A k \in 1..Len(commands) : ~Has(commands[k].group)
    /\ last.op = "deleteCommand.confirm"
    /\ searchFilter = <<>>

----------------------------------------------------------------------------
(* Properties of the terminal invocation *)

\* the terminal calls of run r, in the order issued
TerminalIssued(r) ==
    LET own == SelectSeq(effects, LAMBDA e : e.run = r /\ e.kind = "terminal")
    IN  [k \in 1..Len(own) |-> own[k].call]

\* an external-terminal action with shell commands that names a profile
NamesProfile(c) ==
    HasCommands(c) /\ IsTrue(c.externalTerminal) /\ Truthy(c.terminalProfile)

\* no profile of the platform has the name the action gives
ProfileNotFound(c) ==
    /\ NamesProfile(c)
    /\ \A k \in 1..Len(GetTerminalProfiles(platform, installed)) :
            GetTerminalProfiles(platform, installed)[k].name # Val(c.terminalProfile)

\* C21: a run of an external-terminal action whose profile name no profile of the
\* platform has issues exactly one terminal invocation, the one the same action
\* issues when it names no profile (the platform's default terminal), and the run
\* goes on to its URLs and programs
C21_UnknownProfileFallsBack ==
    \A r \in 1..Len(runs) :
        LET c == runs[r].triggered
        IN  ProfileNotFound(c) =>
                /\ Len(TerminalIssued(r)) = 1
                /\ TerminalIssued(r) =
                        TerminalCalls([c EXCEPT !.terminalProfile = None], platform, installed)
                /\ (runs[r].pc = "done" /\ HasPrograms(c)) => IssuedBy(r, "program") # {}

\* a run of the action that names the profile 'Cmder' came to its end
C21_Witness ==
    \E r \in 1..Len(runs) :
        /\ ProfileNotFound(runs[r].triggered)
        /\ runs[r].triggered.terminalProfile = Some(Lit("Cmder"))
        /\ runs[r].pc = "done"
        /\ Len(TerminalIssued(r)) = 1

\* run r told the user something about its terminal: a message that is not the
\* report of a program launch
TerminalFailureNotified(r) ==
    \E k \in 1..Len(effects) :
        /\ effects[k].run = r
        /\ effects[k].kind # "callback"
        /\ effects[k].call.api = "showErrorMessage"

\* C22: a run whose requested terminal profile is not found has, once it is over,
\* shown the user a notification about it, and what it issued stays issued
C22_FailureNotified ==
    \A r \in 1..Len(runs) :
        (ProfileNotFound(runs[r].triggered) /\ Over(r)) => TerminalFailureNotified(r)

\* what a run has issued is never taken back: effects only grows
NothingRolledBack ==
    [][Len(effects') >= Len(effects) /\ SubSeq(effects', 1, Len(effects)) = effects]_vars

\* a run of the action that names 'Cmder' is over, has issued its terminal call,
\* its URL opens and its program launches, and no message about the profile
C22_SilentFallback ==
    \E r \in 1..Len(runs) :
        /\ ProfileNotFound(runs[r].triggered)
        /\ runs[r].pc = "done"
        /\ Len(TerminalIssued(r)) = 1
        /\ IssuedBy(r, "program") # {}
        /\ ~TerminalFailureNotified(r)

\* the words a call is made of: those of its text and of each of its arguments
Words(call) ==
    {call.text[k] : k \in 1..Len(call.text)}
    \cup UNION {{call.argv[j][k] : k \in 1..Len(call.argv[j])} : j \in 1..Len(call.argv)}

\* what the handler puts into a call to keep the window: cmd /k, PowerShell -NoExit,
\* a read or an exec bash after the commands of bash -c
KeepWords ==
    {"/k", "-NoExit", " -ArgumentList '-NoExit -Command ", "; read' -Verb RunAs\"",
     "; read -p 'Press Enter to close...'", "; exec bash"}

\* what the handler sends to the internal terminal to end its shell
ExitWords == {" } finally { exit }", "; exit"}

\* the window stays when the commands are through. The internal terminal and
\* Terminal.app's do script type the commands into an interactive shell, which
\* stays unless it is told to exit; cmd /c, PowerShell -Command, bash -c and
\* iTerm's "create window ... command" end with the commands unless told to stay
KeepOpenForm(call) ==
    CASE call.api = "createTerminal" -> Words(call) \cap ExitWords = {}
      [] "osascript -e 'tell app \"Terminal\" to do script \"" \in Words(call) -> TRUE
      [] OTHER -> Words(call) \cap KeepWords # {}
CloseAfterForm(call) == ~KeepOpenForm(call)

\* C23: the terminal invocation of a run closes after the last command when
\* autoClose is set, and keeps the shell open when it is not: in the internal
\* terminal and in every external one, on every platform, for every profile
C23_AutoCloseForm ==
    \A r \in 1..Len(runs) :
        \A k \in 1..Len(TerminalIssued(r)) :
            IF IsTrue(runs[r].triggered.autoClose)
            THEN CloseAfterForm(TerminalIssued(r)[k])
            ELSE KeepOpenForm(TerminalIssued(r)[k])

\* the same, for the internal terminal and for the external terminals of Windows
AutoCloseHonoured ==
    \A r \in 1..Len(runs) :
        \A k \in 1..Len(TerminalIssued(r)) :
            (platform = "win32" \/ ~IsTrue(runs[r].triggered.externalTerminal)) =>
                (IsTrue(runs[r].triggered.autoClose) <=> CloseAfterForm(TerminalIssued(r)[k]))

\* on Linux an external-terminal action with autoClose set was run: its call ends
\* in exec bash, as it does without autoClose
C23_LinuxStaysOpen ==
    \E r \in 1..Len(runs) :
        /\ platform = "linux"
        /\ IsTrue(runs[r].triggered.externalTerminal)
        /\ IsTrue(runs[r].triggered.autoClose)
        /\ Len(TerminalIssued(r)) = 1
        /\ KeepOpenForm(TerminalIssued(r)[1])
        /\ TerminalIssued(r) =
                TerminalCalls([runs[r].triggered EXCEPT !.autoClose = None], platform, installed)

\* the ends of the PowerShell lines that start a process with the RunAs verb
ElevationWords == {"' -Verb RunAs\"", "; read' -Verb RunAs\""}

\* the call goes through the elevation helper: powershell Start-Process -Verb RunAs
ThroughElevation(call) == call.api = "exec" /\ Words(call) \cap ElevationWords # {}

\* C24: on Windows the terminal of an action with runAsAdmin set is started through
\* the elevation helper, never without it, and the terminal of an action without
\* runAsAdmin never through it
C24_ElevationOnWindows ==
    \A r \in 1..Len(runs) :
        \A k \in 1..Len(TerminalIssued(r)) :
            platform = "win32" =>
                (IsTrue(runs[r].triggered.runAsAdmin) <=> ThroughElevation(TerminalIssued(r)[k]))

\* the same for the actions run in an external terminal
ElevationInExternalTerminal ==
    \A r \in 1..Len(runs) :
        \A k \in 1..Len(TerminalIssued(r)) :
            (platform = "win32" /\ IsTrue(runs[r].triggered.externalTerminal)) =>
                (IsTrue(runs[r].triggered.runAsAdmin) <=> ThroughElevation(TerminalIssued(r)[k]))

\* on Windows an action with runAsAdmin and no external terminal was run: its
\* commands went to the internal terminal
C24_InternalUnelevated ==
    \E r \in 1..Len(runs) :
        /\ platform = "win32"
        /\ IsTrue(runs[r].triggered.runAsAdmin)
        /\ ~IsTrue(runs[r].triggered.externalTerminal)
        /\ Len(TerminalIssued(r)) = 1
        /\ TerminalIssued(r)[1].api = "createTerminal"

----------------------------------------------------------------------------
(* Properties of the moves: where a dropped command and a dropped group land *)

\* cmds without its element at the 0-based index s
RemovedAt(cmds, s) ==
    [k \in 1..(Len(cmds) - 1) |-> IF k <= s THEN cmds[k] ELSE cmds[k + 1]]

\* rest with x put in so that it has the 0-based index p
InsertedAt(rest, p, x) ==
    [k \in 1..(Len(rest) + 1) |->
        IF k <= p THEN rest[k] ELSE IF k = p + 1 THEN x ELSE rest[k - 1]]

\* remove the element at s, then insert x at t - 1 if s < t and at t otherwise
Reinserted(cmds, s, t, x) ==
    InsertedAt(RemovedAt(cmds, s), IF s < t THEN t - 1 ELSE t, x)

\* the last handler dropped the command at index s of the store, without throwing
DropS == last.payload.indices[1]
DropT == DropTargetIndex(before, last.target)
DropCarriedOut == DroppedCommand /\ calls # <<"TypeError">>

\* C25: a command at index s dropped on a target of its own group, with resolved
\* target index t, leaves the store as it was with that command removed from s and
\* put back at index t - 1 if s < t and at t otherwise, no group changed
C25_SameGroupMove ==
    (DropCarriedOut /\ At(before, DropS).group = DropTargetGroup(last.target))
        => /\ commands = Reinserted(before, DropS, DropT, At(before, DropS))
           /\ BagOf(commands) = BagOf(before)

\* C of [A, B(X), C(X)] was dropped on B: the store is [A, C(X), B(X)]
C25_Witness ==
    /\ DroppedCommandOn(StoreAXX, 2, CommandItem(At(StoreAXX, 1), 1))
    /\ commands = <<Cmd(A, None), Cmd(C, Some(X)), Cmd(B, Some(X))>>
    /\ calls = <<"saveCommands", "refresh">>

\* C26: a command at index s dropped on a target of another group, with resolved
\* target index t, has the target's group afterwards and sits where the rule of the
\* same-group move puts it (index t - 1 if s < t, else t); every other command
\* keeps its group and its place among the others
C26_RegroupingMove ==
    (DropCarriedOut /\ At(before, DropS).group # DropTargetGroup(last.target))
        => LET moved == [At(before, DropS) EXCEPT !.group = DropTargetGroup(last.target)]
               landed == IF DropS < DropT THEN DropT - 1 ELSE DropT
           IN  /\ commands = Reinserted(before, DropS, DropT, moved)
               /\ At(commands, landed) = moved
               /\ RemovedAt(commands, landed) = RemovedAt(before, DropS)

\* B(group G/Sub) of [A(G), B(G/Sub), C] was dropped on C: the store is
\* [A(G), B, C], B without a group and, the target index 2 shifted to 1, before C
C26_Witness ==
    /\ DroppedCommandOn(StoreGSub, 1, CommandItem(At(StoreGSub, 2), 2))
    /\ commands = <<Cmd(A, Some(G)), Cmd(B, None), Cmd(C, None)>>
    /\ calls = <<"saveCommands", "refresh">>

\* C(group G/Sub) of [A(G), B, C(G/Sub)] was dropped on the group G, whose first
\* command is at index 0: the store is [C(G), A(G), B]
RegroupedToFront ==
    /\ DroppedCommandOn(StoreApart, 2, GroupItem(G, FALSE, 2))
    /\ commands = <<Cmd(C, Some(G)), Cmd(A, Some(G)), Cmd(B, None)>>

\* the last handler was a group drop that found commands to move and did not throw
GroupDropCarriedOut ==
    /\ last.op = "handleGroupDrop"
    /\ calls # <<"TypeError">>
    /\ SourceIndices(before, last.payload.groupPath) # {}

\* the commands of the store before the drop in or under the source group, and
\* the others, each in store order
MovedBlock == SelectSeq(before, LAMBDA c : InGroup(c, last.payload.groupPath))
Remaining == SelectSeq(before, LAMBDA c : ~InGroup(c, last.payload.groupPath))

\* the block put into the others so that it begins at the 0-based index p
BlockAt(p) == SubSeq(Remaining, 1, p) \o MovedBlock \o SubSeq(Remaining, p + 1, Len(Remaining))

\* C27: after a group drop the commands in or under the source group stand next to
\* each other in the order they had, and the other commands in the order they had
C27_BlockStaysTogether ==
    GroupDropCarriedOut => \E p \in 0..Len(Remaining) : commands = BlockAt(p)

\* the group G of [A(G), B, C(G/Sub)], whose commands are apart, was dropped on
\* empty space: the store is [A(G), C(G/Sub), B]
C27_Witness ==
    /\ DroppedGroupOn(StoreApart, G, NoItem)
    /\ commands = <<Cmd(A, Some(G)), Cmd(C, Some(GSub)), Cmd(B, None)>>
    /\ calls = <<"saveCommands", "refresh">>

\* the resolved target index of the last group drop
GroupDropT == GroupDropTargetIndex(before, last.target)

\* the 0-based indices the commands of the source group had, and the others had
MovedIndices == SourceIndices(before, last.payload.groupPath)
OtherIndices == (0..(Len(before) - 1)) \ MovedIndices

\* C28: with resolved target index t the block begins at t minus the number of
\* moved commands that stood below t, which is immediately before the first of the
\* other commands that stood at t or above, and the end of the store if none did
C28_BlockPosition ==
    GroupDropCarriedOut =>
        LET p == GroupDropT - Cardinality({i \in MovedIndices : i < GroupDropT})
            atOrAbove == {i \in OtherIndices : i >= GroupDropT}
            first == CHOOSE i \in atOrAbove : \A j \in atOrAbove : i <= j
        IN  /\ commands = BlockAt(p)
            /\ p = Cardinality({i \in OtherIndices : i < GroupDropT})
            /\ IF atOrAbove = {}
               THEN p = Len(Remaining)
               ELSE At(commands, p + Len(MovedBlock)) = At(before, first)

\* the group G of [A(G), B, C(G/Sub)] was dropped on C, at index 2, with one moved
\* command below it: the block begins at index 1, after B, at the end of the store
C28_Witness ==
    /\ DroppedGroupOn(StoreApart, G, CommandItem(At(StoreApart, 2), 2))
    /\ commands = <<Cmd(B, None), Cmd(A, Some(G)), Cmd(C, Some(GSub))>>
    /\ calls = <<"saveCommands", "refresh">>

----------------------------------------------------------------------------
(* Properties of the levels of the tree *)

\* the part of a path before its first '/', the whole path when it has none
SegmentBefore(path, from) ==
    LET slashes == {k \in (from + 1)..Len(path) : path[k] = "/"}
        end == IF slashes = {} THEN Len(path) + 1
               ELSE CHOOSE k \in slashes : \A j \in slashes : k <= j
    IN  SubSeq(path, 1, end - 1)

\* the matching commands that have a group, by 0-based index
MatchingGrouped == {i \in MatchingIndices : Truthy(At(commands, i).group)}

\* the least index of a set of indices
Least(indices) == CHOOSE i \in indices : \A j \in indices : i <= j

\* the shown level holds first one GroupItem for each of the paths, in the order
\* in which firstAt gives their first appearance, then one CommandItem for each of
\* the indices, ascending, and nothing else
LevelIs(paths, firstAt, indices) ==
    LET n == Cardinality(paths)
        items == shown.items
    IN  /\ Len(items) = n + Cardinality(indices)
        /\ \A k \in 1..n : items[k].kind = "group" /\ items[k].groupPath \in paths
        /\ \A j \in 1..n : \A k \in 1..n :
                j < k => firstAt[items[j].groupPath] < firstAt[items[k].groupPath]
        /\ \A k \in (n + 1)..Len(items) :
                /\ items[k].kind = "command"
                /\ items[k].index \in indices
                /\ items[k] = CommandItem(At(commands, items[k].index), items[k].index)
        /\ \A j \in (n + 1)..Len(items) : \A k \in (n + 1)..Len(items) :
                j < k => items[j].index < items[k].index

\* C29: the root level lists one GroupItem for each first path segment of the
\* matching commands that have a group, in the order in which these segments first
\* appear among them in the store, and after the groups the matching commands
\* without a group, as CommandItems in store order
C29_RootLevel ==
    (shown.read /\ shown.element.kind = "none") =>
        LET segment(i) == SegmentBefore(Val(At(commands, i).group), 0)
            paths == {segment(i) : i \in MatchingGrouped}
            firstAt == [p \in paths |-> Least({i \in MatchingGrouped : segment(i) = p})]
        IN  LevelIs(paths, firstAt,
                    {i \in MatchingIndices : ~Truthy(At(commands, i).group)})

\* the root of [A(H), B(G/S), C, D(G), N(H/G), ab('')] without a filter: H before
\* G, as they first appear, then C and the command whose group is the empty string
C29_Witness ==
    /\ shown.read /\ shown.element.kind = "none" /\ shown.filter = <<>>
    /\ commands = ViewStoreOrder
    /\ Len(shown.items) = 4
    /\ shown.items[1].groupPath = H /\ shown.items[2].groupPath = G
    /\ shown.items[3] = CommandItem(At(commands, 2), 2)
    /\ shown.items[4] = CommandItem(At(commands, 5), 5)

\* under the filter 'g' the root of [A(H), B(G/S), C, D(G), N(H/G), ab('')] shows G
\* before H: A does not match, and among the matching commands G comes first
RootOrderUnderFilter ==
    /\ shown.read /\ shown.element.kind = "none" /\ shown.filter = <<"g">>
    /\ commands = ViewStoreOrder
    /\ Len(shown.items) = 2
    /\ shown.items[1].groupPath = G /\ shown.items[2].groupPath = H

\* C30: the level of a group path P lists first one GroupItem for each next segment
\* of the matching commands whose group starts with P + '/', by its path down to
\* that segment and in the order in which these first appear among them in the
\* store, then the matching commands whose group is exactly P, as CommandItems in
\* store order, and nothing else
C30_GroupLevel ==
    (shown.read /\ shown.element.kind = "group") =>
        LET path == shown.element.groupPath
            below == {i \in MatchingGrouped :
                        StartsWith(Val(At(commands, i).group), path \o <<"/">>)}
            subgroup(i) == SegmentBefore(Val(At(commands, i).group), Len(path) + 1)
            paths == {subgroup(i) : i \in below}
            firstAt == [p \in paths |-> Least({i \in below : subgroup(i) = p})]
        IN  LevelIs(paths, firstAt,
                    {i \in MatchingIndices : At(commands, i).group = Some(path)})

\* the level G of [A(G/T), B(G/S), C(G), D(G/T/H), N(G)] without a filter: G/T
\* before G/S, then C and N
C30_Witness ==
    /\ shown.read /\ shown.element.kind = "group" /\ shown.element.groupPath = G
    /\ shown.filter = <<>>
    /\ commands = ViewStoreSub
    /\ Len(shown.items) = 4
    /\ shown.items[1].groupPath = GT /\ shown.items[2].groupPath = GS
    /\ shown.items[3] = CommandItem(At(commands, 2), 2)
    /\ shown.items[4] = CommandItem(At(commands, 4), 4)

----------------------------------------------------------------------------
(* Properties of every drop *)

\* the last handler was a drop, of commands or of a group
Dropped == last.op \in {"handleDrop", "handleGroupDrop"}

\* c with its group left out of the comparison
Ungroup(c) == [c EXCEPT !.group = None]

\* the store is the store before the drop rearranged, the command that stood at the
\* 0-based index s being the only one whose group may have changed
RearrangedBut(s) ==
    \E p \in 0..(Len(commands) - 1) :
        /\ Ungroup(At(commands, p)) = Ungroup(At(before, s))
        /\ RemovedAt(commands, p) = RemovedAt(before, s)

\* C31: every drop, of commands or of a group, on any target, leaves a permutation
\* of the store: the length is the same and the commands are the same ones, but for
\* the group of the one dragged command
C31_DropPermutes ==
    Dropped =>
        /\ Len(commands) = Len(before)
        /\ IF DropCarriedOut
           THEN RearrangedBut(DropS)
           ELSE BagOf(commands) = BagOf(before)

\* A of [A(G), B, C(G/Sub)] was dropped on C: the store is [B, A(G/Sub), C(G/Sub)],
\* A in another group and at another place
C31_Witness ==
    /\ DroppedCommandOn(StoreApart, 0, CommandItem(At(StoreApart, 2), 2))
    /\ commands = <<Cmd(B, None), Cmd(A, Some(GSub)), Cmd(C, Some(GSub))>>
    /\ calls = <<"saveCommands", "refresh">>

\* the dragged command as the drop leaves it: with the group of the target
DroppedAs == [At(before, DropS) EXCEPT !.group = DropTargetGroup(last.target)]

\* the dragged command stands immediately before the command c
StandsBefore(c) ==
    \E p \in 0..(Len(commands) - 2) : At(commands, p) = DroppedAs /\ At(commands, p + 1) = c

\* the dragged command has the target's group and the place it had, as every other
\* command has
StandsWhereItStood ==
    /\ At(commands, DropS) = DroppedAs
    /\ RemovedAt(commands, DropS) = RemovedAt(before, DropS)

\* the 0-based indices of the commands in or under the group path before the drop
MembersBefore(path) == SourceIndices(before, path)

\* a command S was dropped on another command T: S has T's group and stands
\* immediately before T
DropOnCommandLands ==
    (DropCarriedOut /\ last.target.kind = "command" /\ last.target.index # DropS)
        => StandsBefore(At(before, last.target.index))

\* C32 as stated: S dropped on another command T has T's group and stands
\* immediately before T; S dropped on a group node stands immediately before the
\* first command that was in or under that group before the drop, S apart
C32_DropLandsBeforeAsStated ==
    /\ DropOnCommandLands
    /\ (DropCarriedOut /\ last.target.kind = "group")
        => LET others == MembersBefore(last.target.groupPath) \ {DropS}
           IN  others # {} => StandsBefore(At(before, Least(others)))

\* C32 amended: S dropped on another command T has T's group and stands immediately
\* before T; S dropped on a group node has the path of that node as its group and
\* stands immediately before the first command that was in or under that group,
\* unless S was that command, and then S keeps its place
C32_DropLandsBefore ==
    /\ DropOnCommandLands
    /\ (DropCarriedOut /\ last.target.kind = "group")
        => LET first == Least(MembersBefore(last.target.groupPath))
           IN  /\ MembersBefore(last.target.groupPath) # {}
               /\ IF first = DropS THEN StandsWhereItStood
                  ELSE StandsBefore(At(before, first))

\* A of [A(G), B, C(G/Sub)] was dropped on the group G, whose first command it is:
\* the store is as it was, B between A and the next command of the group
C32_Witness ==
    /\ DroppedCommandOn(StoreApart, 0, GroupItem(G, FALSE, 2))
    /\ commands = StoreApart
    /\ calls = <<"saveCommands", "refresh">>

\* A of [A, B(X), C(X)] was dropped on the group X: the store is [A(X), B(X), C(X)]
DroppedBeforeFirstOfGroup ==
    /\ DroppedCommandOn(StoreAXX, 0, GroupItem(X, FALSE, 2))
    /\ commands = <<Cmd(A, Some(X)), Cmd(B, Some(X)), Cmd(C, Some(X))>>

----------------------------------------------------------------------------
(* Properties of the handlers that act on an index taken earlier *)

\* this step is the save of the form that was opened to edit an action
EditSaved ==
    /\ form.open /\ form.onSave = "edit" /\ Has(form.editIndex)
    /\ ~form'.open
    /\ last'.op = "onSave.edit"

\* C33: the save of the edit form opened for the action at index i replaces that
\* action and no other: the action stands at index i when the form is saved, the
\* store keeps its length and every other action is as it was, whatever was done
\* to the store while the form was open
C33_EditReplacesOpened ==
    [][EditSaved =>
        /\ InRange(commands, Val(form.editIndex))
        /\ At(commands, Val(form.editIndex)) = Val(form.existingData)
        /\ Len(commands') = Len(commands)
        /\ RemovedAt(commands', Val(form.editIndex)) = RemovedAt(commands, Val(form.editIndex))]_vars

\* the form opened for B, at index 1 of [A, B], was saved after A was deleted: the
\* store [B] has become [B, D]
C33_SavedPastTheEnd ==
    /\ last.op = "onSave.edit"
    /\ last.payload.indices = <<1>>
    /\ Len(before) = 1
    /\ Len(commands) = 2
    /\ At(commands, 0) = At(before, 0)

\* the form opened for A, at index 0, was saved after A was deleted: the action
\* that had moved to index 0 is gone
SavedOverAnother ==
    /\ last.op = "onSave.edit"
    /\ last.payload.indices = <<0>>
    /\ Len(before) = 1
    /\ commands = <<Cmd(D, None)>>
    /\ At(before, 0) = LegacyAction

\* this step is the modal delete warning resolving, to 'Delete' or to nothing
PromptClosedBy(op) == Has(prompt) /\ prompt' = None /\ last'.op = op

\* the 0-based indices of the actions of the store that have the name
Named(name) ==
    {p \in 0..(Len(commands) - 1) : IsCommand(commands, p) /\ At(commands, p).name = name}

\* C34: a confirmed delete removes the action whose name the warning showed and
\* nothing else (nothing at all when the store has no such action any more), also
\* when the store changed while the warning was open; a dismissed warning leaves
\* the store as it is and saves nothing
C34_DeleteAsPrompted ==
    [][/\ PromptClosedBy("deleteCommand.confirm") =>
            IF Named(Val(prompt).name) = {} THEN commands' = commands
            ELSE \E p \in Named(Val(prompt).name) : commands' = RemovedAt(commands, p)
       /\ PromptClosedBy("deleteCommand.dismiss") =>
            /\ commands' = commands
            /\ calls' = <<>>
            /\ UNCHANGED <<disk, fsEvent, shown>>]_vars

\* a dismissed warning leaves the store, the file and the tree as they are
DismissChangesNothing ==
    [][PromptClosedBy("deleteCommand.dismiss") =>
            /\ commands' = commands
            /\ calls' = <<>>
            /\ UNCHANGED <<disk, fsEvent, shown>>]_vars

----------------------------------------------------------------------------
(* Properties of the whole tree *)

\* the CommandItems a walk of the tree meets, each with the path of the group node
\* it was returned for (None for the root): the walk calls getChildren for the
\* element and then for every GroupItem returned, depth levels down
RECURSIVE Walk(_, _)
RECURSIVE WalkAll(_, _)
Walk(element, depth) ==
    LET items == GetChildren(commands, searchFilter, expandedGroups, element)
        under == IF element.kind = "group" THEN Some(element.groupPath) ELSE None
        found == SelectSeq(items, LAMBDA it : it.kind = "command")
        groups == SelectSeq(items, LAMBDA it : it.kind = "group")
    IN  [k \in 1..Len(found) |-> [under |-> under, item |-> found[k]]]
        \o (IF depth = 0 THEN <<>> ELSE WalkAll(groups, depth - 1))
WalkAll(groups, depth) ==
    IF groups = <<>> THEN <<>>
    ELSE Walk(Head(groups), depth) \o WalkAll(Tail(groups), depth)

\* the 0-based indices of the commands that match the filter in force
MatchingNow ==
    {i \in 0..(Len(commands) - 1) : MatchesSearch(At(commands, i), searchFilter)}

\* where the command c belongs: under the node of its group, at the root without one
Home(c) == IF Truthy(c.group) THEN c.group ELSE None

\* C35: for every store and filter the walk of the tree from the root through all
\* its levels meets every matching command as exactly one CommandItem, returned for
\* the group node whose path is the command's group (for the root when it has
\* none), and the index of every CommandItem is that of its command in the store
C35_EachActionOnce ==
    LET walk == Walk(NoItem, MaxDepth)
    IN  /\ \A i \in MatchingNow :
              \E k \in 1..Len(walk) :
                  /\ walk[k].item = CommandItem(At(commands, i), i)
                  /\ walk[k].under = Home(At(commands, i))
                  /\ \A j \in 1..Len(walk) : walk[j].item.index = i => j = k
        /\ \A k \in 1..Len(walk) :
              /\ walk[k].item.index \in MatchingNow
              /\ walk[k].item.data = Some(At(commands, walk[k].item.index))
        /\ shown.read =>
              \A k \in 1..Len(shown.items) :
                  shown.items[k].kind = "command" =>
                      /\ shown.items[k].data = Some(At(commands, shown.items[k].index))
                      /\ Home(At(commands, shown.items[k].index))
                            = IF shown.element.kind = "group"
                              THEN Some(shown.element.groupPath) ELSE None

\* under the filter 'x' the tree view has read the level G/S/H of the nested store:
\* it holds the matching command, with index 0, and the walk meets two commands
C35_Witness ==
    /\ commands = ViewStoreNested /\ searchFilter = <<"x">>
    /\ shown.read /\ shown.filter = <<"x">>
    /\ shown.element.kind = "group" /\ shown.element.groupPath = GSH
    /\ shown.items = <<CommandItem(At(ViewStoreNested, 0), 0)>>
    /\ Len(Walk(NoItem, MaxDepth)) = 2

----------------------------------------------------------------------------
(* Properties of repeated imports *)

\* the store a Merge import of the parsed document leaves when it starts on cmds
MergedBy(cmds, imported) ==
    IF FilterThrows(cmds) THEN cmds
    ELSE MergeLoop(cmds, imported, Len(imported)).commands

\* C36: a Merge import is idempotent: the store a merge of a document has left is
\* the store a second merge of the same document leaves; the second adds nothing
C36_MergeIdempotent ==
    [][(dialog.at = "pick" /\ last'.op = "importConfig.merge")
            => MergedBy(commands', dialog.imported) = commands']_vars

\* a merge has appended two actions of its document, one of them twice in it, to
\* the store it found
C36_Witness ==
    /\ last.op = "importConfig.merge"
    /\ before = StoreFile
    /\ commands = StoreFile \o <<Cmd(D, None), Cmd(B, None)>>
    /\ calls = <<"showInformationMessage", "saveCommands", "refresh">>

\* a merge started on the store [B(G), D], which a merge had left, and added nothing
MergedAgain ==
    /\ last.op = "importConfig.merge"
    /\ before = <<LegacyAction, Cmd(D, None)>>
    /\ commands = before
    /\ calls = <<"showInformationMessage", "saveCommands", "refresh">>

----------------------------------------------------------------------------
(* Properties of the form panel *)

\* this step is a call of CommandFormPanel.show, from showEditForm or showAddForm
FormShown ==
    /\ last'.op \in {"cmdrun.edit", "showAddForm"}
    /\ calls' = <<>>
    /\ last'.op = "cmdrun.edit" => IsCommand(commands, last'.target.index)

\* this step is the panel's page posting 'save'
FormSaved == form.open /\ last'.op \in {"onSave.add", "onSave.edit"}

\* C37: at most one form panel exists at any time; show() while a panel is open
\* retargets that panel; a save calls the callback supplied last, with the edit
\* index supplied last, once, and leaves no panel and no current panel
C37_OnePanel ==
    /\ [](form.panels <= 1 /\ (form.open <=> form.panels = 1))
    /\ [][/\ FormShown =>
               /\ form'.open
               /\ form.open => form'.panels = form.panels
               /\ form'.onSave = (IF last'.op = "cmdrun.edit" THEN "edit" ELSE "add")
               /\ form'.editIndex = (IF last'.op = "cmdrun.edit"
                                     THEN Some(last'.target.index) ELSE None)
          /\ (form.open /\ form'.open /\ ~FormShown) =>
               /\ form'.onSave = form.onSave
               /\ form'.editIndex = form.editIndex
          /\ FormSaved =>
               LET data == Val(last'.target.data)
               IN  /\ last'.op = (IF form.onSave = "add" THEN "onSave.add" ELSE "onSave.edit")
                   /\ commands' = IF form.onSave = "add" THEN Append(commands, data)
                                  ELSE SetAt(commands, Val(form.editIndex), data)
                   /\ ~form'.open /\ form'.panels = 0]_vars

\* the panel created to edit an action (isEdit is that of its constructor) has been
\* retargeted to add one: it is still the only panel, and holds the callback of
\* showAddForm and no edit index
C37_Witness ==
    /\ form.open /\ form.panels = 1
    /\ form.isEdit
    /\ form.onSave = "add" /\ form.editIndex = None /\ form.existingData = None
    /\ last.op = "showAddForm"

\* a panel created to add an action, then retargeted to edit the action at index 1
Retargeted ==
    /\ form.open /\ form.panels = 1
    /\ form.onSave = "edit" /\ form.editIndex = Some(1)
    /\ ~form.isEdit

\* a save through the callback of showAddForm appended the action and left no panel
SavedAndClosed ==
    /\ last.op = "onSave.add"
    /\ last.payload.indices = <<-1>>
    /\ commands = Append(before, Cmd(D, None))
    /\ ~form.open /\ form.panels = 0

----------------------------------------------------------------------------
(* Properties of a drop of several commands *)

\* the indices dragged along with the first one
DraggedAlong ==
    {last.payload.indices[k] : k \in 2..Len(last.payload.indices)} \ {DropS}

\* C38: when several commands are dragged together the drop moves the first of
\* them only: every other one, dragged along or not, keeps its group and its place
\* among the others
C38_OnlyFirstMoves ==
    (DropCarriedOut /\ Len(last.payload.indices) >= 2) =>
        /\ RearrangedBut(DropS)
        /\ \A j \in DraggedAlong :
              InRange(before, j) =>
                  \E q \in 0..(Len(commands) - 1) :
                      /\ At(commands, q) = At(before, j)
                      /\ q \in {j - 1, j, j + 1}

\* A and B(X) of [A, B(X), C(X)] were dragged, A first, and dropped on C: the store
\* is [B(X), A(X), C(X)], B in its group and before C as it was
C38_Witness ==
    /\ before = StoreAXX
    /\ last = Handled("handleDrop", CommandsPayload(<<0, 1>>), CommandItem(At(StoreAXX, 2), 2))
    /\ commands = <<Cmd(B, Some(X)), Cmd(A, Some(X)), Cmd(C, Some(X))>>
    /\ calls = <<"saveCommands", "refresh">>

----------------------------------------------------------------------------
(* Properties of duplicate *)

\* the last handler duplicated the action at an index of the store
Duplicated == last.op = "duplicateCommand" /\ IsCommand(before, last.target.index)

\* C39: duplicating the action at index i puts at index i + 1 a copy whose name is
\* the original's followed by " (copy)" and whose other fields are the original's;
\* the store is one longer, and without the copy it is the store as it was
C39_DuplicateInsertsCopy ==
    Duplicated =>
        LET i == last.target.index
        IN  /\ Len(commands) = Len(before) + 1
            /\ At(commands, i + 1).name = At(before, i).name \o <<" (copy)">>
            /\ [At(commands, i + 1) EXCEPT !.name = <<>>] = [At(before, i) EXCEPT !.name = <<>>]
            /\ RemovedAt(commands, i + 1) = before

\* the action A, with its commands, URLs and programs, was duplicated in a store
\* that held it alone: the store is [A, A (copy)]
C39_Witness ==
    /\ Duplicated
    /\ before = <<At(StoreFile, 0)>>
    /\ Len(commands) = 2
    /\ At(commands, 1).name = <<"A", " (copy)">>
    /\ At(commands, 1).urls = At(StoreFile, 0).urls /\ Has(At(commands, 1).urls)
    /\ calls = <<"saveCommands", "refresh">>

----------------------------------------------------------------------------
(* Properties of a drop without a source *)

\* this step is a drop whose payload names no command of the store: no index, an
\* index outside the store, or a group path no command is in or under
DropWithoutSource ==
    \/ /\ last'.op = "handleDrop"
       /\ \/ last'.payload.indices = <<>>
          \/ ~InRange(commands, last'.payload.indices[1])
    \/ /\ last'.op = "handleGroupDrop"
       /\ SourceIndices(commands, last'.payload.groupPath) = {}

\* C40: a drop whose source is invalid leaves the store as it is, saves nothing
\* and refreshes nothing
C40_InvalidSourceIsNoOp ==
    [][DropWithoutSource =>
          /\ commands' = commands
          /\ calls' = <<>>
          /\ UNCHANGED <<disk, unsaved, fsEvent, shown>>]_vars

\* the group Z, of which the store has no command, was dropped on a command
C40_Witness ==
    /\ last.op = "handleGroupDrop"
    /\ last.payload.groupPath = StaleGroup
    /\ last.target.kind = "command"
    /\ SourceIndices(before, StaleGroup) = {}
    /\ commands = before
    /\ calls = <<>>

\* an index past the end of the store was dropped on a group
DroppedOutsideStore ==
    /\ last.op = "handleDrop"
    /\ last.payload.indices = <<Len(before)>>
    /\ last.target.kind = "group"
    /\ commands = before
    /\ calls = <<>>

====
